---- MODULE Spec2Model ----
(***************************************************************************)
(* Model of src/src/transcription_tool/alignment.py: the interval overlap  *)
(* functions, the segment aligner and (later sections) the transcript      *)
(* formatter.                                                              *)
(*                                                                         *)
(* Times are points of the integer grid 0..MaxTime.  The overlap ratio is  *)
(* a Python float obtained by one division; it is modelled by the exact    *)
(* fraction in lowest terms, <<numerator, denominator>>, so that two       *)
(* ratios are equal as values exactly when they are equal as numbers.      *)
(* Times themselves are floats with a significand of FloatBits bits, in    *)
(* units of the smallest step: every integer below 2^FloatBits is a float, *)
(* above it only every second, fourth, ... integer is, and a difference    *)
(* is rounded to the nearest float.                                        *)
(***************************************************************************)
EXTENDS Integers, Sequences, FiniteSets, TLC

\* ------------------------------------------------------------------ bounds
MaxTime == 3
MaxTrans == 2
MaxDiar == 2
MaxSpans == 3
MaxSegments == 3
FloatBits == 4

VARIABLES
    transcription_segments,   \* argument: list of transcription dicts
    diarization_segments,     \* argument: list of diarization dicts
    overlap_threshold,        \* argument: minimum overlap ratio
    pc,                       \* position in align_transcription_with_diarization
    trans_segs,               \* list of TranscriptionSegment objects
    diar_segs,                \* list of DiarizationSegment objects
    i,                        \* outer loop: index of trans_seg (1-based)
    j,                        \* inner loop: index of diar_seg (1-based)
    best_match,
    best_overlap_ratio,
    matching_diar_segments,   \* list of <<diar_seg, overlap_ratio>>
    aligned_segments,         \* result of align; argument of the formatter
    probe,                    \* direct calls of the overlap functions
    transcript_lines,         \* format_aligned_transcript: lines emitted so far
    current_speaker,          \* format_aligned_transcript: <<>> is None
    segment,                  \* format_aligned_transcript: loop position (1-based)
    transcript,               \* format_aligned_transcript: the string returned
    remembered,               \* caller: an earlier call, its arguments and result
    files,                    \* file system: the paths that exist
    audio_issues,             \* the audio is larger or longer than validation allows
    ffmpeg_available,         \* probe_ffmpeg_availability()["available"]
    tempdir_usable,           \* tempfile.gettempdir() finds a directory
    unlink_permitted,         \* the temporary directory allows removing files
    file_path,                \* perform_diarization: argument
    pipeline,                 \* perform_diarization: argument, what the model call does
    processed_file,           \* perform_diarization: <<>> is None
    is_temporary,             \* perform_diarization
    raised,                   \* the exception in flight or escaped: <<>> is none
    failing,                  \* the steps that fail when they are reached
    entry,                    \* the entry point that was called
    file_paths,               \* run_batch_pipeline: argument
    with_diarization,         \* run_batch_pipeline: argument
    use_auth_token,           \* run_batch_pipeline: argument, <<>> is None
    results,                  \* run_batch_pipeline: the list returned
    file_result,              \* run_batch_pipeline: result, the dict of the current file
    file_index                \* run_batch_pipeline: loop position (1-based)

diarVars == <<files, audio_issues, ffmpeg_available, tempdir_usable,
              unlink_permitted, file_path, pipeline, processed_file,
              is_temporary, raised>>

runVars == <<failing, entry>>

batchVars == <<file_paths, with_diarization, use_auth_token, results,
               file_result, file_index>>

ioVars == <<diarVars, runVars, batchVars>>

vars == <<transcription_segments, diarization_segments, overlap_threshold, pc,
          trans_segs, diar_segs, i, j, best_match, best_overlap_ratio,
          matching_diar_segments, aligned_segments, probe,
          transcript_lines, current_speaker, segment, transcript, remembered,
          ioVars>>

fmtVars == <<transcript_lines, current_speaker, segment, transcript>>

alignVars == <<transcription_segments, diarization_segments, overlap_threshold,
               pc, trans_segs, diar_segs, i, j, best_match, best_overlap_ratio,
               matching_diar_segments, aligned_segments>>

\* Python's None, as a record so that it compares with every object
None == [none |-> TRUE]

\* ------------------------------------------------------- float arithmetic
Abs(x) == IF x < 0 THEN -x ELSE x

RECURSIVE GCD(_, _)
GCD(a, b) == IF b = 0 THEN a ELSE GCD(b, a % b)

\* the exception Python's / raises on a zero divisor
ZeroDivisionError == <<"ZeroDivisionError">>

\* the quotient n / d in lowest terms with a positive denominator
Frac(n, d) ==
    IF d = 0
    THEN ZeroDivisionError
    ELSE LET g == GCD(Abs(n), Abs(d))
             s == IF d < 0 THEN -1 ELSE 1
         IN  <<(s * n) \div g, (s * d) \div g>>

FracLT(a, b) == a[1] * b[2] < b[1] * a[2]
FracLE(a, b) == a[1] * b[2] <= b[1] * a[2]

\* the float nearest to the integer x: the significand keeps FloatBits bits,
\* ties go to the even significand
RECURSIVE RoundTo(_, _)
RoundTo(x, unit) ==
    IF x < (2 ^ FloatBits) * unit
    THEN LET q == x \div unit
             r == x % unit
         IN  IF 2 * r < unit THEN q * unit
             ELSE IF 2 * r > unit THEN (q + 1) * unit
             ELSE IF q % 2 = 0 THEN q * unit ELSE (q + 1) * unit
    ELSE RoundTo(x, 2 * unit)

RoundFloat(x) == IF x < 0 THEN -RoundTo(-x, 1) ELSE RoundTo(x, 1)

\* float subtraction
fsub(a, b) == RoundFloat(a - b)

Max(a, b) == IF a >= b THEN a ELSE b
Min(a, b) == IF a <= b THEN a ELSE b

\* ------------------------------------------------ Interval Overlap Engine
\* variant: line 58 without the clamp at 0 (sensitivity of C7)
calculate_overlap_unclamped(seg1_start, seg1_end, seg2_start, seg2_end) ==
    Min(seg1_end, seg2_end) - Max(seg1_start, seg2_start)

\* variant: line 56 takes seg1_start for overlap_start (sensitivity of C8)
calculate_overlap_from_seg1(seg1_start, seg1_end, seg2_start, seg2_end) ==
    Max(0, Min(seg1_end, seg2_end) - seg1_start)

\* variant: line 58 takes abs() for the clamp at 0 (sensitivity of C11)
calculate_overlap_abs(seg1_start, seg1_end, seg2_start, seg2_end) ==
    Abs(Min(seg1_end, seg2_end) - Max(seg1_start, seg2_start))

calculate_overlap(seg1_start, seg1_end, seg2_start, seg2_end) ==
    LET overlap_start == Max(seg1_start, seg2_start)
        overlap_end   == Min(seg1_end, seg2_end)
    IN  Max(0, fsub(overlap_end, overlap_start))

\* variant: line 73 takes the longer duration (sensitivity of C10)
calculate_overlap_ratio_of_longer(seg1_start, seg1_end, seg2_start, seg2_end) ==
    LET overlap         == calculate_overlap(seg1_start, seg1_end, seg2_start, seg2_end)
        longer_duration == Max(seg1_end - seg1_start, seg2_end - seg2_start)
    IN  IF longer_duration = 0
        THEN Frac(0, 1)
        ELSE Frac(overlap, longer_duration)

\* variant: line 78 divides the wrong way round (sensitivity of C9)
calculate_overlap_ratio_inverted(seg1_start, seg1_end, seg2_start, seg2_end) ==
    LET overlap          == calculate_overlap(seg1_start, seg1_end, seg2_start, seg2_end)
        shorter_duration == Min(seg1_end - seg1_start, seg2_end - seg2_start)
    IN  IF overlap = 0
        THEN Frac(0, 1)
        ELSE Frac(shorter_duration, overlap)

\* variant: line 73 takes the duration of seg2 (sensitivity of C6)
calculate_overlap_ratio_of_seg2(seg1_start, seg1_end, seg2_start, seg2_end) ==
    LET overlap       == calculate_overlap(seg1_start, seg1_end, seg2_start, seg2_end)
        seg2_duration == seg2_end - seg2_start
    IN  IF seg2_duration = 0
        THEN Frac(0, 1)
        ELSE Frac(overlap, seg2_duration)

\* variant: without the guard of lines 75-76 (sensitivity of C19)
calculate_overlap_ratio_unguarded(seg1_start, seg1_end, seg2_start, seg2_end) ==
    Frac(calculate_overlap(seg1_start, seg1_end, seg2_start, seg2_end),
         Min(seg1_end - seg1_start, seg2_end - seg2_start))

\* variant: line 73 takes the duration of the first segment (sensitivity of
\* C25)
calculate_overlap_ratio_of_seg1(seg1_start, seg1_end, seg2_start, seg2_end) ==
    LET overlap       == calculate_overlap(seg1_start, seg1_end, seg2_start, seg2_end)
        seg1_duration == fsub(seg1_end, seg1_start)
    IN  IF seg1_duration = 0
        THEN Frac(0, 1)
        ELSE Frac(overlap, seg1_duration)

\* variant: line 78 returns the overlap itself, an absolute duration
\* (sensitivity of C20)
calculate_overlap_ratio_absolute(seg1_start, seg1_end, seg2_start, seg2_end) ==
    Frac(calculate_overlap(seg1_start, seg1_end, seg2_start, seg2_end), 1)

calculate_overlap_ratio(seg1_start, seg1_end, seg2_start, seg2_end) ==
    LET overlap          == calculate_overlap(seg1_start, seg1_end, seg2_start, seg2_end)
        seg1_duration    == fsub(seg1_end, seg1_start)
        seg2_duration    == fsub(seg2_end, seg2_start)
        shorter_duration == Min(seg1_duration, seg2_duration)
    IN  IF shorter_duration = 0
        THEN Frac(0, 1)
        ELSE Frac(overlap, shorter_duration)

\* ------------------------------------------------------------ str.strip()
Whitespace == {" ", "\t", "\n", "\r"}

RECURSIVE lstrip(_)
lstrip(s) ==
    IF s # <<>> /\ Head(s) \in Whitespace THEN lstrip(Tail(s)) ELSE s

RECURSIVE rstrip(_)
rstrip(s) ==
    IF s # <<>> /\ s[Len(s)] \in Whitespace
    THEN rstrip(SubSeq(s, 1, Len(s) - 1))
    ELSE s

strip(s) == rstrip(lstrip(s))

\* ------------------------------------------------------------ input space
Times == 0..MaxTime

\* (start, end) pairs; start <= end is assumed by the callers but never
\* enforced, so a list may hold a span with start > end
Spans == Times \X Times

ValidSpan(s) == s.start <= s.end

\* what a transcription dict holds besides start and end: the three
\* required keys only, or a full Whisper segment
TransPayloads ==
    { [text |-> <<" ", "h", "i", " ", "y", "o", " ">>],
      [text |-> <<"x">>, id |-> 7, tokens |-> <<50364, 2425>>, avg_logprob |-> -1] }

TransDicts ==
    { [start |-> p[1], end |-> p[2]] @@ q : p \in Spans, q \in TransPayloads }

Speakers ==
    { [speaker |-> "Speaker_A", speaker_id |-> "A"],
      [speaker |-> "Speaker_B", speaker_id |-> "B"] }

\* a dict as format_diarization_segments builds it
DiarDicts ==
    { [start |-> p[1], end |-> p[2], duration |-> p[2] - p[1],
       speaker |-> s.speaker, speaker_id |-> s.speaker_id] :
      p \in Spans, s \in Speakers }

DefaultThreshold == Frac(3, 10)

\* the argument is any float: none is rejected, also none <= 0 or > 1
Thresholds == {Frac(0, 1), DefaultThreshold, Frac(1, 1), Frac(3, 2)}

ListsUpTo(S, n) == UNION {[1..k -> S] : k \in 0..n}

\* the concrete scenarios of the specification's section 8, as written there
ScenarioContained ==
    [T |-> <<[start |-> 0, end |-> 2, text |-> <<"h", "e", "l", "l", "o">>]>>,
     D |-> <<[start |-> 0, end |-> 4, speaker |-> "Speaker_A", speaker_id |-> "A"]>>,
     threshold |-> DefaultThreshold]

ScenarioDisjoint ==
    [T |-> <<[start |-> 0, end |-> 1, text |-> <<"h", "i">>]>>,
     D |-> <<[start |-> 10, end |-> 11, speaker |-> "Speaker_A", speaker_id |-> "A"]>>,
     threshold |-> DefaultThreshold]

ScenarioTie ==
    [T |-> <<[start |-> 0, end |-> 10, text |-> <<"x">>]>>,
     D |-> <<[start |-> 0, end |-> 5, speaker |-> "A", speaker_id |-> "A"],
             [start |-> 5, end |-> 10, speaker |-> "B", speaker_id |-> "B"]>>,
     threshold |-> DefaultThreshold]

Scenarios == {ScenarioContained, ScenarioDisjoint, ScenarioTie}

\* the call under way is the given scenario
Running(sc) ==
    /\ transcription_segments = sc.T
    /\ diarization_segments = sc.D
    /\ overlap_threshold = sc.threshold

\* no direct call of the overlap functions is under way
NoProbe == [seg1 |-> <<0, 0>>, seg2 |-> <<0, 0>>, calls |-> {}]

\* --------------------------------------------------------------- records
Get(d, key, default) == IF key \in DOMAIN d THEN d[key] ELSE default

\* variant: line 105 without .strip() (sensitivity of C1)
TranscriptionSegment_untrimmed(seg, idx) ==
    [id          |-> Get(seg, "id", idx),
     start       |-> seg.start,
     end         |-> seg.end,
     text        |-> seg.text,
     tokens      |-> Get(seg, "tokens", <<>>),
     avg_logprob |-> Get(seg, "avg_logprob", 0)]

TranscriptionSegment(seg, idx) ==
    [id          |-> Get(seg, "id", idx),
     start       |-> seg.start,
     end         |-> seg.end,
     text        |-> strip(seg.text),
     tokens      |-> Get(seg, "tokens", <<>>),
     avg_logprob |-> Get(seg, "avg_logprob", 0)]

DiarizationSegment(seg) ==
    [start      |-> seg.start,
     end        |-> seg.end,
     speaker    |-> seg.speaker,
     speaker_id |-> seg.speaker_id]

\* the formatter has not been called
FormatterIdle ==
    /\ transcript_lines = <<>>
    /\ current_speaker = <<>>
    /\ segment = 0
    /\ transcript = <<>>

\* perform_diarization is not under way
DiarizationIdle ==
    /\ files = {}
    /\ audio_issues = FALSE
    /\ ffmpeg_available = FALSE
    /\ tempdir_usable = FALSE
    /\ unlink_permitted = FALSE
    /\ file_path = ""
    /\ pipeline = ""
    /\ processed_file = <<>>
    /\ is_temporary = FALSE
    /\ raised = <<>>

\* no pipeline entry point is under way
RunIdle ==
    /\ failing = {}
    /\ entry = ""

\* run_batch_pipeline is not under way
BatchIdle ==
    /\ file_paths = <<>>
    /\ with_diarization = FALSE
    /\ use_auth_token = <<>>
    /\ results = <<>>
    /\ file_result = None
    /\ file_index = 0

IoIdle == DiarizationIdle /\ RunIdle /\ BatchIdle

\* ------------------------------------ align_transcription_with_diarization
\* the arguments of a call: any lists over the grid within the bounds, or one
\* of the scenarios
Init ==
    /\ \/ /\ transcription_segments \in ListsUpTo(TransDicts, MaxTrans)
          /\ diarization_segments \in ListsUpTo(DiarDicts, MaxDiar)
          /\ Len(transcription_segments) + Len(diarization_segments) <= MaxSpans
          /\ overlap_threshold \in Thresholds
       \/ \E sc \in Scenarios : Running(sc)
    /\ pc = "start"
    /\ trans_segs = <<>>
    /\ diar_segs = <<>>
    /\ i = 0
    /\ j = 0
    /\ best_match = None
    /\ best_overlap_ratio = Frac(0, 1)
    /\ matching_diar_segments = <<>>
    /\ aligned_segments = <<>>
    /\ probe = NoProbe
    /\ FormatterIdle
    /\ remembered = None
    /\ IoIdle

\* variant: line 104 stores the stripped text back into the caller's dict
\* (sensitivity of C17)
Convert_in_place ==
    /\ pc = "start"
    /\ aligned_segments' = <<>>
    /\ transcription_segments' =
           [k \in 1..Len(transcription_segments) |->
               [transcription_segments[k] EXCEPT !.text = strip(@)]]
    /\ trans_segs' = [k \in 1..Len(transcription_segments) |->
                        TranscriptionSegment(transcription_segments[k], k - 1)]
    /\ diar_segs' = [k \in 1..Len(diarization_segments) |->
                        DiarizationSegment(diarization_segments[k])]
    /\ i' = 1
    /\ pc' = "for_trans"
    /\ UNCHANGED <<diarization_segments, overlap_threshold,
                   j, best_match, best_overlap_ratio, matching_diar_segments, probe,
                   fmtVars, ioVars, remembered>>

\* variant: without line 97, the result list outlives the call (sensitivity
\* of C18)
Convert_accumulating ==
    /\ pc = "start"
    /\ aligned_segments' = aligned_segments
    /\ trans_segs' = [k \in 1..Len(transcription_segments) |->
                        TranscriptionSegment(transcription_segments[k], k - 1)]
    /\ diar_segs' = [k \in 1..Len(diarization_segments) |->
                        DiarizationSegment(diarization_segments[k])]
    /\ i' = 1
    /\ pc' = "for_trans"
    /\ UNCHANGED <<transcription_segments, diarization_segments, overlap_threshold,
                   j, best_match, best_overlap_ratio, matching_diar_segments, probe,
                   fmtVars, ioVars, remembered>>

\* lines 97-120: build the structured objects
Convert ==
    /\ pc = "start"
    /\ aligned_segments' = <<>>
    /\ trans_segs' = [k \in 1..Len(transcription_segments) |->
                        TranscriptionSegment(transcription_segments[k], k - 1)]
    /\ diar_segs' = [k \in 1..Len(diarization_segments) |->
                        DiarizationSegment(diarization_segments[k])]
    /\ i' = 1
    /\ pc' = "for_trans"
    /\ UNCHANGED <<transcription_segments, diarization_segments, overlap_threshold,
                   j, best_match, best_overlap_ratio, matching_diar_segments, probe,
                   fmtVars, ioVars, remembered>>

\* lines 123-126: next trans_seg, reset the per-segment state
BeginSegment ==
    /\ pc = "for_trans"
    /\ i <= Len(trans_segs)
    /\ best_match' = None
    /\ best_overlap_ratio' = Frac(0, 1)
    /\ matching_diar_segments' = <<>>
    /\ j' = 1
    /\ pc' = "for_diar"
    /\ UNCHANGED <<transcription_segments, diarization_segments, overlap_threshold,
                   trans_segs, diar_segs, i, aligned_segments, probe,
                   fmtVars, ioVars, remembered>>

\* variant: line 134 without the threshold test (sensitivity of C12)
MeetsThreshold_always(overlap_ratio, threshold) == TRUE

\* variant: line 134 with <= for >= (sensitivity of C24)
MeetsThreshold_below(overlap_ratio, threshold) == FracLE(overlap_ratio, threshold)

\* line 134: the diarization span is a match
MeetsThreshold(overlap_ratio, threshold) == FracLE(threshold, overlap_ratio)

\* variant: line 137 with >= (sensitivity of C4)
Improves_or_ties(overlap_ratio, best) == FracLE(best, overlap_ratio)

\* line 137: the match replaces the best one so far
Improves(overlap_ratio, best) == FracLT(best, overlap_ratio)

\* lines 129-139: one iteration of the inner loop; an exception of the
\* ratio computation leaves the function
ScanDiar ==
    /\ pc = "for_diar"
    /\ j <= Len(diar_segs)
    /\ LET trans_seg     == trans_segs[i]
           diar_seg      == diar_segs[j]
           overlap_ratio == calculate_overlap_ratio(
                                trans_seg.start, trans_seg.end,
                                diar_seg.start, diar_seg.end)
       IN  IF overlap_ratio = ZeroDivisionError
           THEN /\ pc' = "raised"
                /\ UNCHANGED <<matching_diar_segments, best_overlap_ratio,
                               best_match, j>>
           ELSE /\ IF MeetsThreshold(overlap_ratio, overlap_threshold)
                   THEN /\ matching_diar_segments' =
                               Append(matching_diar_segments,
                                      <<diar_seg, overlap_ratio>>)
                        /\ IF Improves(overlap_ratio, best_overlap_ratio)
                           THEN /\ best_overlap_ratio' = overlap_ratio
                                /\ best_match' = diar_seg
                           ELSE UNCHANGED <<best_overlap_ratio, best_match>>
                   ELSE UNCHANGED <<matching_diar_segments, best_overlap_ratio,
                                    best_match>>
                /\ j' = j + 1
                /\ pc' = pc
    /\ UNCHANGED <<transcription_segments, diarization_segments, overlap_threshold,
                   trans_segs, diar_segs, i, aligned_segments, probe,
                   fmtVars, ioVars, remembered>>

\* variant: line 149 keeps the best match only (sensitivity of C5)
MatchingSegments_best_only(best, matching) == <<best>>

\* variant: line 149 leaves the best match out (sensitivity of C23)
MatchingSegments_without_best(best, matching) ==
    SelectSeq([k \in 1..Len(matching) |-> matching[k][1]], LAMBDA d : d # best)

\* line 149: the references of a matched segment
MatchingSegments(best, matching) ==
    [k \in 1..Len(matching) |-> matching[k][1]]

\* lines 142-167: the aligned segment of trans_seg
AlignedSegment(trans_seg, best, best_ratio, matching) ==
    LET matched == best # None
    IN  [start      |-> trans_seg.start,
         end        |-> trans_seg.end,
         text       |-> trans_seg.text,
         speaker    |-> IF matched THEN best.speaker ELSE "Unknown_Speaker",
         speaker_id |-> IF matched THEN best.speaker_id ELSE "UNKNOWN",
         confidence |-> IF matched THEN best_ratio ELSE Frac(0, 1),
         transcription_segment |-> trans_seg,
         diarization_segments  |->
             IF matched THEN MatchingSegments(best, matching) ELSE <<>>]

\* lines 141-169: create the aligned segment and append it
EmitSegment ==
    /\ pc = "for_diar"
    /\ j > Len(diar_segs)
    /\ aligned_segments' =
           Append(aligned_segments,
                  AlignedSegment(trans_segs[i], best_match, best_overlap_ratio,
                                 matching_diar_segments))
    /\ i' = i + 1
    /\ pc' = "for_trans"
    /\ UNCHANGED <<transcription_segments, diarization_segments, overlap_threshold,
                   trans_segs, diar_segs, j, best_match, best_overlap_ratio,
                   matching_diar_segments, probe,
                   fmtVars, ioVars, remembered>>

\* line 171
Return ==
    /\ pc = "for_trans"
    /\ i > Len(trans_segs)
    /\ pc' = "done"
    /\ UNCHANGED <<transcription_segments, diarization_segments, overlap_threshold,
                   trans_segs, diar_segs, i, j, best_match, best_overlap_ratio,
                   matching_diar_segments, aligned_segments, probe,
                   fmtVars, ioVars, remembered>>

Next == Convert \/ BeginSegment \/ ScanDiar \/ EmitSegment \/ Return

Spec == Init /\ [][Next]_vars

\* ------------------------------- direct calls of the Interval Overlap Engine
\* A caller holds two spans and calls calculate_overlap and
\* calculate_overlap_ratio on them, in either argument order; every call is
\* recorded with its result.
InitOverlap ==
    /\ probe \in [seg1 : Spans, seg2 : Spans, calls : {{}}]
    /\ transcription_segments = <<>>
    /\ diarization_segments = <<>>
    /\ overlap_threshold = DefaultThreshold
    /\ pc = "idle"
    /\ trans_segs = <<>>
    /\ diar_segs = <<>>
    /\ i = 0
    /\ j = 0
    /\ best_match = None
    /\ best_overlap_ratio = Frac(0, 1)
    /\ matching_diar_segments = <<>>
    /\ aligned_segments = <<>>
    /\ FormatterIdle
    /\ remembered = None
    /\ IoIdle

ProbeArgs(swapped) ==
    IF swapped
    THEN <<probe.seg2[1], probe.seg2[2], probe.seg1[1], probe.seg1[2]>>
    ELSE <<probe.seg1[1], probe.seg1[2], probe.seg2[1], probe.seg2[2]>>

Called(fn, swapped) == \E c \in probe.calls : c.fn = fn /\ c.swapped = swapped

CallOverlap(swapped) ==
    /\ pc = "idle"
    /\ ~Called("calculate_overlap", swapped)
    /\ LET a == ProbeArgs(swapped)
       IN  probe' = [probe EXCEPT !.calls = @ \cup
                        {[fn |-> "calculate_overlap", swapped |-> swapped,
                          result |-> calculate_overlap(a[1], a[2], a[3], a[4])]}]
    /\ UNCHANGED <<alignVars, fmtVars, ioVars, remembered>>

CallOverlapRatio(swapped) ==
    /\ pc = "idle"
    /\ ~Called("calculate_overlap_ratio", swapped)
    /\ LET a == ProbeArgs(swapped)
       IN  probe' = [probe EXCEPT !.calls = @ \cup
                        {[fn |-> "calculate_overlap_ratio", swapped |-> swapped,
                          result |-> calculate_overlap_ratio(a[1], a[2], a[3], a[4])]}]
    /\ UNCHANGED <<alignVars, fmtVars, ioVars, remembered>>

NextOverlap ==
    \/ \E swapped \in BOOLEAN : CallOverlap(swapped)
    \/ \E swapped \in BOOLEAN : CallOverlapRatio(swapped)

SpecOverlap == InitOverlap /\ [][NextOverlap]_vars

\* ---------------------------------------------- format_aligned_transcript
\* Strings are sequences of characters.  The start of a segment is a Python
\* float, modelled by an exact fraction <<numerator, denominator>>.

\* float // m, for an integer m > 0: the floor of the quotient, as a float
floordiv(x, m) == Frac(x[1] \div (x[2] * m), 1)

\* float % m, for an integer m > 0: the remainder of the floor division
mod(x, m) == Frac(x[1] - m * x[2] * (x[1] \div (x[2] * m)), x[2])

\* int(float): truncation toward zero
int(x) == IF x[1] >= 0 THEN x[1] \div x[2] ELSE -((-x[1]) \div x[2])

DigitChars == <<"0", "1", "2", "3", "4", "5", "6", "7", "8", "9">>

\* the decimal digits of n >= 0
RECURSIVE Digits(_)
Digits(n) ==
    IF n < 10
    THEN <<DigitChars[n + 1]>>
    ELSE Digits(n \div 10) \o <<DigitChars[(n % 10) + 1]>>

\* f"{n:02d}": sign, then digits, zero-padded to a width of two
format_02d(n) ==
    IF n < 0
    THEN <<"-">> \o Digits(-n)
    ELSE IF n < 10 THEN <<"0">> \o Digits(n) ELSE Digits(n)

\* variant: minutes wrap at the hour (sensitivity of C16)
start_time_capped(start) ==
    format_02d(int(floordiv(start, 60)) % 60) \o <<":">> \o format_02d(int(mod(start, 60)))

\* line 197: f"{int(segment.start // 60):02d}:{int(segment.start % 60):02d}"
start_time(start) ==
    format_02d(int(floordiv(start, 60))) \o <<":">> \o format_02d(int(mod(start, 60)))

\* line 193: f"**{segment.speaker}:**"
HeaderLine(speaker) == <<"*", "*">> \o speaker \o <<":", "*", "*">>

\* variant: line 198 without the text (sensitivity of C15)
TextLine_without_text(seg) == <<"[">> \o start_time(seg.start) \o <<"]", " ">>

\* line 198: f"[{start_time}] {segment.text}"
TextLine(seg) == <<"[">> \o start_time(seg.start) \o <<"]", " ">> \o seg.text

\* sep.join(lines)
RECURSIVE join(_, _)
join(sep, lines) ==
    IF lines = <<>>
    THEN <<>>
    ELSE IF Len(lines) = 1
         THEN lines[1]
         ELSE lines[1] \o sep \o join(sep, Tail(lines))

\* variant: line 189 tests nothing (sensitivity of C13)
SpeakerChanges_always(seg, current) == TRUE

\* line 189: segment.speaker != current_speaker
SpeakerChanges(seg, current) == current # <<seg.speaker>>

\* variant: line 190 tests nothing (sensitivity of C14)
NeedsSpacing_always(lines) == TRUE

\* line 190: if transcript_lines
NeedsSpacing(lines) == lines # <<>>

\* the arguments of a call: segments as align produces them (text trimmed),
\* with only the attributes the formatter reads
FmtSpeakers == {<<"A">>, <<"B">>}

FmtStarts == {Frac(0, 1), Frac(119, 2), Frac(61, 1), Frac(3600, 1), Frac(6000, 1)}

FmtTexts == {<<"h", "i">>, <<"a", "\n", "\n", "b">>}

FmtSegments == [speaker : FmtSpeakers, start : FmtStarts, text : FmtTexts]

InitFormat ==
    /\ aligned_segments \in ListsUpTo(FmtSegments, MaxSegments)
    /\ pc = "format"
    /\ FormatterIdle
    /\ remembered = None
    /\ IoIdle
    /\ probe = NoProbe
    /\ transcription_segments = <<>>
    /\ diarization_segments = <<>>
    /\ overlap_threshold = DefaultThreshold
    /\ trans_segs = <<>>
    /\ diar_segs = <<>>
    /\ i = 0
    /\ j = 0
    /\ best_match = None
    /\ best_overlap_ratio = Frac(0, 1)
    /\ matching_diar_segments = <<>>

fmtFrame == <<transcription_segments, diarization_segments, overlap_threshold,
              trans_segs, diar_segs, i, j, best_match, best_overlap_ratio,
              matching_diar_segments, aligned_segments, probe, remembered,
              ioVars>>

\* lines 184-185
FormatBegin ==
    /\ pc = "format"
    /\ transcript_lines' = <<>>
    /\ current_speaker' = <<>>
    /\ segment' = 1
    /\ pc' = "for_segment"
    /\ UNCHANGED <<fmtFrame, transcript>>

\* lines 187-198: one iteration of the loop
FormatSegment ==
    /\ pc = "for_segment"
    /\ segment <= Len(aligned_segments)
    /\ LET seg == aligned_segments[segment]
           spaced == IF NeedsSpacing(transcript_lines)
                     THEN Append(transcript_lines, <<>>)
                     ELSE transcript_lines
       IN  IF SpeakerChanges(seg, current_speaker)
           THEN /\ transcript_lines' =
                       Append(Append(spaced, HeaderLine(seg.speaker)), TextLine(seg))
                /\ current_speaker' = <<seg.speaker>>
           ELSE /\ transcript_lines' = Append(transcript_lines, TextLine(seg))
                /\ current_speaker' = current_speaker
    /\ segment' = segment + 1
    /\ UNCHANGED <<fmtFrame, pc, transcript>>

\* line 200
FormatReturn ==
    /\ pc = "for_segment"
    /\ segment > Len(aligned_segments)
    /\ transcript' = join(<<"\n">>, transcript_lines)
    /\ pc' = "formatted"
    /\ UNCHANGED <<fmtFrame, transcript_lines, current_speaker, segment>>

NextFormat == FormatBegin \/ FormatSegment \/ FormatReturn

SpecFormat == InitFormat /\ [][NextFormat]_vars

\* ------------------------------------------------------- successive calls
\* A caller calls align and the formatter again and again.  Nothing of a
\* call is cleared by the caller: a local holds what the previous call left
\* in it until the code assigns it.  At some return the caller keeps the
\* arguments and the result of the call just made, to compare later calls
\* with; it may also call align on the kept arguments with every time
\* multiplied by a factor.
CallTrans ==
    { <<>>,
      <<[start |-> 0, end |-> 11, text |-> <<"x">>]>>,
      <<[start |-> 1, end |-> 3, text |-> <<" ", "h", "i", " ">>],
        [start |-> 0, end |-> 11, text |-> <<"x">>, id |-> 7]>> }

CallDiar ==
    { <<>>,
      <<[start |-> 7, end |-> 18, duration |-> 11,
         speaker |-> "Speaker_A", speaker_id |-> "A"]>>,
      <<[start |-> 0, end |-> 4, duration |-> 4,
         speaker |-> "Speaker_B", speaker_id |-> "B"],
        [start |-> 7, end |-> 18, duration |-> 11,
         speaker |-> "Speaker_A", speaker_id |-> "A"]>> }

CallInputs ==
    Scenarios \cup
    { [T |-> t, D |-> d, threshold |-> th] :
        t \in CallTrans, d \in CallDiar, th \in Thresholds }

FmtCallInputs ==
    ListsUpTo([speaker : FmtSpeakers, start : {Frac(119, 2)}, text : {<<"h", "i">>}], 2)

ScaleFactors == {2, 3}

\* float multiplication
fmul(a, b) == RoundFloat(a * b)

ScaleSpans(k, spans) ==
    [n \in 1..Len(spans) |->
        [key \in DOMAIN spans[n] |->
            IF key \in {"start", "end", "duration"}
            THEN fmul(k, spans[n][key])
            ELSE spans[n][key]]]

Scaled(k, c) ==
    [T |-> ScaleSpans(k, c.T), D |-> ScaleSpans(k, c.D), threshold |-> c.threshold]

\* the arguments of the call of align under way or just returned
AlignArgs ==
    [T |-> transcription_segments, D |-> diarization_segments,
     threshold |-> overlap_threshold]

InitCalls ==
    /\ \/ /\ \E c \in CallInputs : Running(c)
          /\ pc = "start"
          /\ aligned_segments = <<>>
       \/ /\ aligned_segments \in FmtCallInputs
          /\ pc = "format"
          /\ transcription_segments = <<>>
          /\ diarization_segments = <<>>
          /\ overlap_threshold = DefaultThreshold
    /\ trans_segs = <<>>
    /\ diar_segs = <<>>
    /\ i = 0
    /\ j = 0
    /\ best_match = None
    /\ best_overlap_ratio = Frac(0, 1)
    /\ matching_diar_segments = <<>>
    /\ probe = NoProbe
    /\ FormatterIdle
    /\ remembered = None
    /\ IoIdle

Returned == pc \in {"done", "formatted"}

alignLocals == <<trans_segs, diar_segs, i, j, best_match, best_overlap_ratio,
                 matching_diar_segments>>

\* the caller keeps the call that has just returned
Remember ==
    /\ Returned
    /\ remembered = None
    /\ remembered' =
          IF pc = "done"
          THEN [fn |-> "align", args |-> AlignArgs, result |-> aligned_segments,
                intervened |-> FALSE]
          ELSE [fn |-> "format", args |-> aligned_segments, result |-> transcript,
                intervened |-> FALSE]
    /\ UNCHANGED <<alignVars, probe, fmtVars, ioVars>>

\* the kept call, with a note when the call now made differs from it
Noting(fn, args) ==
    IF remembered = None
    THEN None
    ELSE IF remembered.fn = fn /\ remembered.args = args
         THEN remembered
         ELSE [remembered EXCEPT !.intervened = TRUE]

CallAlign(c) ==
    /\ Returned
    /\ transcription_segments' = c.T
    /\ diarization_segments' = c.D
    /\ overlap_threshold' = c.threshold
    /\ pc' = "start"
    /\ remembered' = Noting("align", c)
    /\ UNCHANGED <<alignLocals, aligned_segments, probe, fmtVars, ioVars>>

CallAlignScaled(k) ==
    /\ remembered # None
    /\ remembered.fn = "align"
    /\ CallAlign(Scaled(k, remembered.args))

\* align is called on the lists of the kept call with another threshold
CallAlignThreshold(threshold) ==
    /\ remembered # None
    /\ remembered.fn = "align"
    /\ CallAlign([remembered.args EXCEPT !.threshold = threshold])

CallFormat(segments) ==
    /\ Returned
    /\ aligned_segments' = segments
    /\ pc' = "format"
    /\ remembered' = Noting("format", segments)
    /\ UNCHANGED <<transcription_segments, diarization_segments, overlap_threshold,
                   alignLocals, probe, fmtVars, ioVars>>

NextCalls ==
    \/ Next
    \/ NextFormat
    \/ Remember
    \/ \E c \in CallInputs : CallAlign(c)
    \/ \E k \in ScaleFactors : CallAlignScaled(k)
    \/ \E threshold \in Thresholds : CallAlignThreshold(threshold)
    \/ \E segments \in FmtCallInputs : CallFormat(segments)

SpecCalls == InitCalls /\ [][NextCalls]_vars

\* ------------------------------------------------ run_diarization_pipeline
\* transcribe_with_diarization turns the aligner's objects into plain dicts;
\* run_diarization_pipeline builds objects from the dicts again and formats
\* them.  The caller keeps the aligner's objects and may also format them
\* directly.

\* variant: the dict holds the speaker id as the speaker (sensitivity of C26)
AsDict_speaker_id(seg) ==
    [start      |-> seg.start,
     end        |-> seg.end,
     text       |-> seg.text,
     speaker    |-> seg.speaker_id,
     speaker_id |-> seg.speaker_id,
     confidence |-> seg.confidence]

\* transcription.py lines 180-189: the dict of an aligned segment
AsDict(seg) ==
    [start      |-> seg.start,
     end        |-> seg.end,
     text       |-> seg.text,
     speaker    |-> seg.speaker,
     speaker_id |-> seg.speaker_id,
     confidence |-> seg.confidence]

\* pipeline.py lines 129-140: the object built from a dict
AsObject(seg_dict) ==
    [start      |-> seg_dict["start"],
     end        |-> seg_dict["end"],
     text       |-> seg_dict["text"],
     speaker    |-> seg_dict["speaker"],
     speaker_id |-> seg_dict["speaker_id"],
     confidence |-> seg_dict["confidence"]]

\* transcription.py lines 177-190 and pipeline.py lines 126-141
Rebuilt(objects) == [k \in 1..Len(objects) |-> AsObject(AsDict(objects[k]))]

\* the characters of the labels in use
Chars(str) ==
    CASE str = "Speaker_A" -> <<"S", "p", "e", "a", "k", "e", "r", "_", "A">>
      [] str = "Speaker_B" -> <<"S", "p", "e", "a", "k", "e", "r", "_", "B">>
      [] str = "Unknown_Speaker" ->
             <<"U", "n", "k", "n", "o", "w", "n", "_",
               "S", "p", "e", "a", "k", "e", "r">>
      [] str = "UNKNOWN" -> <<"U", "N", "K", "N", "O", "W", "N">>
      [] str = "A" -> <<"A">>
      [] str = "B" -> <<"B">>

\* the objects as the formatter reads them: labels character by character,
\* the start as a float
AsRead(objects) ==
    [k \in 1..Len(objects) |->
        [objects[k] EXCEPT !.speaker = Chars(@), !.speaker_id = Chars(@),
                           !.start = Frac(@, 1)]]

InitPipeline ==
    /\ \E c \in CallInputs : Running(c)
    /\ pc = "start"
    /\ aligned_segments = <<>>
    /\ trans_segs = <<>>
    /\ diar_segs = <<>>
    /\ i = 0
    /\ j = 0
    /\ best_match = None
    /\ best_overlap_ratio = Frac(0, 1)
    /\ matching_diar_segments = <<>>
    /\ probe = NoProbe
    /\ FormatterIdle
    /\ remembered = None
    /\ IoIdle

\* the aligner's objects, kept by the caller
HasObjects == remembered # None /\ remembered.fn = "align"

HasTranscript == HasObjects /\ "transcript" \in DOMAIN remembered

\* format_aligned_transcript is called on the aligner's objects
FormatObjects ==
    /\ Returned
    /\ HasObjects
    /\ aligned_segments' = AsRead(remembered.result)
    /\ pc' = "format"
    /\ UNCHANGED <<transcription_segments, diarization_segments, overlap_threshold,
                   alignLocals, probe, fmtVars, ioVars, remembered>>

\* the transcript of the aligner's objects is kept
KeepTranscript ==
    /\ pc = "formatted"
    /\ HasObjects
    /\ ~HasTranscript
    /\ aligned_segments = AsRead(remembered.result)
    /\ remembered' = [transcript |-> transcript] @@ remembered
    /\ UNCHANGED <<alignVars, probe, fmtVars, ioVars>>

\* transcription.py lines 177-190, pipeline.py lines 126-143: the objects go
\* through dicts and the formatter is called on the objects built from them
FormatRebuilt ==
    /\ Returned
    /\ HasObjects
    /\ aligned_segments' = AsRead(Rebuilt(remembered.result))
    /\ pc' = "format"
    /\ UNCHANGED <<transcription_segments, diarization_segments, overlap_threshold,
                   alignLocals, probe, fmtVars, ioVars, remembered>>

NextPipeline ==
    \/ Next
    \/ Remember
    \/ FormatObjects
    \/ KeepTranscript
    \/ FormatRebuilt
    \/ NextFormat

SpecPipeline == InitPipeline /\ [][NextPipeline]_vars

\* ----------------------------------------------- the entry points together
\* One of the entry points of the module is used: align is called, the
\* overlap functions are called directly, or the formatter is called.
InitModule == Init \/ InitOverlap \/ InitFormat

NextModule == Next \/ NextOverlap \/ NextFormat

SpecModule == InitModule /\ [][NextModule]_vars

\* ----------------------------------------------------------------------
\* Properties of the aligner, stated on its arguments and its result
\* ----------------------------------------------------------------------
Done == pc = "done"

SentinelSpeaker == [speaker |-> "Unknown_Speaker", speaker_id |-> "UNKNOWN"]

\* the ratio of transcription dict t and diarization dict d
RatioOf(t, d) == calculate_overlap_ratio(t.start, t.end, d.start, d.end)

\* the diarization spans (by position) that meet the threshold for t
CandidateIdx(t) ==
    {n \in 1..Len(diarization_segments) :
        FracLE(overlap_threshold, RatioOf(t, diarization_segments[n]))}

AllWhitespace(s) == \A n \in 1..Len(s) : s[n] \in Whitespace

\* out is inp without its leading and trailing whitespace
IsTrimOf(out, inp) ==
    /\ \E a \in 0..Len(inp) :
          /\ a + Len(out) <= Len(inp)
          /\ out = SubSeq(inp, a + 1, a + Len(out))
          /\ AllWhitespace(SubSeq(inp, 1, a))
          /\ AllWhitespace(SubSeq(inp, a + Len(out) + 1, Len(inp)))
    /\ out # <<>> => out[1] \notin Whitespace /\ out[Len(out)] \notin Whitespace

\* segment a is the aligned segment of the n-th transcription dict
CarriesInput(a, n) ==
    LET t == transcription_segments[n]
        r == a.transcription_segment
    IN  /\ a.start = t.start
        /\ a.end = t.end
        /\ IsTrimOf(a.text, t.text)
        /\ r.start = t.start
        /\ r.end = t.end
        /\ r.text = a.text
        /\ r.id = (IF "id" \in DOMAIN t THEN t.id ELSE n - 1)
        /\ r.tokens = (IF "tokens" \in DOMAIN t THEN t.tokens ELSE <<>>)

\* C1: align returns exactly one aligned segment per transcription span, the
\* n-th carrying the start, end, trimmed text and back-reference of the n-th
\* input span; while it runs, the result is the prefix built so far.
C1_OnePerSpanInOrder ==
    /\ Len(aligned_segments) <= Len(transcription_segments)
    /\ \A n \in 1..Len(aligned_segments) : CarriesInput(aligned_segments[n], n)
    /\ Done => Len(aligned_segments) = Len(transcription_segments)

\* two different spans were aligned, one of them with text that needed trimming
C1_Witness ==
    /\ Done
    /\ Len(aligned_segments) = MaxTrans
    /\ transcription_segments[1].start # transcription_segments[2].start
    /\ aligned_segments[1].text # transcription_segments[1].text
    /\ aligned_segments[2].text = transcription_segments[2].text
    /\ diarization_segments # <<>>

IsSentinel(a) ==
    /\ a.speaker = SentinelSpeaker.speaker
    /\ a.speaker_id = SentinelSpeaker.speaker_id
    /\ a.confidence = Frac(0, 1)
    /\ a.diarization_segments = <<>>

HasSpeakerOf(a, d) == a.speaker = d.speaker /\ a.speaker_id = d.speaker_id

\* a speaker of the diarization was assigned
RealSpeaker(a) == a.speaker # SentinelSpeaker.speaker

\* C2: a segment is the sentinel segment (speaker "Unknown_Speaker"/"UNKNOWN",
\* confidence 0.0, no references) if and only if no diarization span meets
\* the threshold, for every threshold; when one does, the speaker of a
\* candidate is assigned.  In the disjoint scenario the result is the sentinel.
C2_SentinelIffNoCandidate ==
    /\ \A n \in 1..Len(aligned_segments) :
          LET a == aligned_segments[n]
              t == transcription_segments[n]
          IN  /\ IsSentinel(a) <=> CandidateIdx(t) = {}
              /\ CandidateIdx(t) # {} =>
                    \E m \in CandidateIdx(t) : HasSpeakerOf(a, diarization_segments[m])
    /\ Done /\ Running(ScenarioDisjoint) =>
          /\ aligned_segments[1].speaker = "Unknown_Speaker"
          /\ aligned_segments[1].confidence = Frac(0, 1)

\* C3: when a span has at least one candidate, the confidence is the greatest
\* ratio over the candidates and the speaker is that of a candidate with
\* that ratio.
C3_BestOfCandidates ==
    \A n \in 1..Len(aligned_segments) :
        LET a == aligned_segments[n]
            t == transcription_segments[n]
        IN  CandidateIdx(t) # {} =>
              /\ \A m \in CandidateIdx(t) :
                    FracLE(RatioOf(t, diarization_segments[m]), a.confidence)
              /\ \E m \in CandidateIdx(t) :
                    /\ RatioOf(t, diarization_segments[m]) = a.confidence
                    /\ HasSpeakerOf(a, diarization_segments[m])

\* the candidates of t with the greatest ratio
TopIdx(t) ==
    {m \in CandidateIdx(t) :
        \A m2 \in CandidateIdx(t) :
            FracLE(RatioOf(t, diarization_segments[m2]),
                   RatioOf(t, diarization_segments[m]))}

FirstTop(t) == CHOOSE m \in TopIdx(t) : \A m2 \in TopIdx(t) : m <= m2

\* the speaker chosen for each segment is that of the earliest of the
\* diarization spans that tie at the greatest ratio
EarliestOfTiedChosen ==
    \A n \in 1..Len(aligned_segments) :
        LET a == aligned_segments[n]
            t == transcription_segments[n]
        IN  RealSpeaker(a) =>
              HasSpeakerOf(a, diarization_segments[FirstTop(t)])

\* a step of the inner loop replaces the best match only by a span whose
\* ratio is strictly greater than the best ratio so far
ReplacedOnlyByGreater ==
    best_match' # best_match /\ pc' = "for_diar" /\ pc = "for_diar" =>
        /\ FracLT(best_overlap_ratio, best_overlap_ratio')
        /\ best_match' = diar_segs[j]

\* the result of the tie scenario: speaker A with the given confidence, both
\* diarization spans referenced
TieScenarioGives(confidence) ==
    Done /\ Running(ScenarioTie) =>
        /\ aligned_segments[1].speaker = "A"
        /\ aligned_segments[1].confidence = confidence
        /\ Len(aligned_segments[1].diarization_segments) = 2

SpanOf(d) ==
    [start |-> d.start, end |-> d.end, speaker |-> d.speaker,
     speaker_id |-> d.speaker_id]

\* the candidates of t among the diarization spans from position m on, in
\* the order supplied
RECURSIVE CandidatesFrom(_, _)
CandidatesFrom(t, m) ==
    IF m > Len(diarization_segments)
    THEN <<>>
    ELSE (IF m \in CandidateIdx(t) THEN <<SpanOf(diarization_segments[m])>> ELSE <<>>)
         \o CandidatesFrom(t, m + 1)

\* C5: when a best match exists, the references are exactly the diarization
\* spans that meet the threshold, in the order supplied.
C5_ReferencesAreAllCandidates ==
    \A n \in 1..Len(aligned_segments) :
        LET a == aligned_segments[n]
            t == transcription_segments[n]
        IN  RealSpeaker(a) => a.diarization_segments = CandidatesFrom(t, 1)

\* the second of two candidates is the best match and both are referenced
C5_Witness ==
    /\ Done
    /\ Len(aligned_segments) = 1
    /\ Len(aligned_segments[1].diarization_segments) = 2
    /\ HasSpeakerOf(aligned_segments[1], diarization_segments[2])
    /\ ~HasSpeakerOf(aligned_segments[1], diarization_segments[1])
    /\ FracLT(Frac(0, 1), overlap_threshold)

Contains(outer, inner) == outer.start <= inner.start /\ inner.end <= outer.end

Overlapping(a, b) == Max(a.start, b.start) < Min(a.end, b.end)

\* t lies inside the m-th diarization span, inside no other one, and overlaps
\* no other one
ExclusivelyIn(t, m) ==
    /\ Contains(diarization_segments[m], t)
    /\ \A m2 \in 1..Len(diarization_segments) \ {m} :
          /\ ~Contains(diarization_segments[m2], t)
          /\ ~Overlapping(diarization_segments[m2], t)

ContainedScenarioHolds ==
    Done /\ Running(ScenarioContained) =>
        /\ Len(aligned_segments) = 1
        /\ aligned_segments[1].speaker = "Speaker_A"
        /\ aligned_segments[1].confidence = Frac(1, 1)

\* C6 as claimed: a transcription span (start <= end) that is fully and
\* exclusively contained in one diarization span gets that span's speaker
\* with confidence 1.0, at the default threshold.
C6_Contained_Claimed ==
    /\ \A n \in 1..Len(aligned_segments) :
          LET a == aligned_segments[n]
              t == transcription_segments[n]
          IN  \A m \in 1..Len(diarization_segments) :
                  /\ ValidSpan(t)
                  /\ overlap_threshold = DefaultThreshold
                  /\ ExclusivelyIn(t, m)
                  => /\ HasSpeakerOf(a, diarization_segments[m])
                     /\ a.confidence = Frac(1, 1)
    /\ ContainedScenarioHolds

\* C6 (amended): the same for a transcription span of non-zero length
\* (start < end), at every threshold up to 1.0.
C6_Contained ==
    /\ \A n \in 1..Len(aligned_segments) :
          LET a == aligned_segments[n]
              t == transcription_segments[n]
          IN  \A m \in 1..Len(diarization_segments) :
                  /\ t.start < t.end
                  /\ FracLE(overlap_threshold, Frac(1, 1))
                  /\ ExclusivelyIn(t, m)
                  => /\ HasSpeakerOf(a, diarization_segments[m])
                     /\ a.confidence = Frac(1, 1)
    /\ ContainedScenarioHolds

\* a span strictly inside the second of two diarization spans
C6_Witness ==
    /\ Done
    /\ Len(aligned_segments) = 1
    /\ Len(diarization_segments) = 2
    /\ ExclusivelyIn(transcription_segments[1], 2)
    /\ transcription_segments[1].start < transcription_segments[1].end
    /\ diarization_segments[2].start < transcription_segments[1].start
    /\ diarization_segments[1].speaker # diarization_segments[2].speaker
    /\ aligned_segments[1].confidence = Frac(1, 1)

\* ----------------------------------------------------------------------
\* Properties of the Interval Overlap Engine, stated on the recorded calls
\* ----------------------------------------------------------------------
OverlapCalls == {c \in probe.calls : c.fn = "calculate_overlap"}

RatioCalls == {c \in probe.calls : c.fn = "calculate_overlap_ratio"}

\* the intervals a call was made on, as <<a, b>>
CallArgs(c) == IF c.swapped THEN <<probe.seg2, probe.seg1>> ELSE <<probe.seg1, probe.seg2>>

ValidPair == probe.seg1[1] <= probe.seg1[2] /\ probe.seg2[1] <= probe.seg2[2]

\* C7: for intervals with start <= end, overlap_duration is never negative
\* and is the same with the two intervals swapped.
C7_OverlapSymmetricNonNegative ==
    ValidPair =>
        /\ \A c \in OverlapCalls : c.result >= 0
        /\ \A c, d \in OverlapCalls : c.result = d.result

\* both argument orders were called on two different intervals that overlap
C7_Witness ==
    /\ ValidPair
    /\ Cardinality(OverlapCalls) = 2
    /\ probe.seg1 # probe.seg2
    /\ probe.seg1[2] - probe.seg1[1] # probe.seg2[2] - probe.seg2[1]
    /\ \E c \in OverlapCalls : c.result > 0

\* the length of the part of the time axis that lies in both intervals: the
\* number of unit cells [u, u+1] inside both
CommonCells(a, b) ==
    {u \in 0..(MaxTime - 1) :
        a[1] <= u /\ u + 1 <= a[2] /\ b[1] <= u /\ u + 1 <= b[2]}

\* C8: overlap_duration is min(aEnd, bEnd) - max(aStart, bStart) when that is
\* positive and 0 otherwise; it is 0 for intervals that are disjoint or
\* touch in one point; for start <= end it is the length of the common part
\* and exceeds the duration of neither interval.
C8_OverlapValue ==
    \A c \in OverlapCalls :
        LET a    == CallArgs(c)[1]
            b    == CallArgs(c)[2]
            lo   == IF a[1] >= b[1] THEN a[1] ELSE b[1]
            hi   == IF a[2] <= b[2] THEN a[2] ELSE b[2]
        IN  /\ c.result = (IF hi - lo > 0 THEN hi - lo ELSE 0)
            /\ (a[2] <= b[1] \/ b[2] <= a[1]) => c.result = 0
            /\ ValidPair =>
                  /\ c.result = Cardinality(CommonCells(a, b))
                  /\ c.result <= a[2] - a[1]
                  /\ c.result <= b[2] - b[1]

\* both argument orders were called on two intervals of non-zero length that
\* touch in one point
C8_Witness ==
    /\ probe.seg1[1] < probe.seg1[2]
    /\ probe.seg1[2] = probe.seg2[1]
    /\ probe.seg2[1] < probe.seg2[2]
    /\ Cardinality(OverlapCalls) = 2
    /\ \A c \in OverlapCalls : c.result = 0

\* C9: for intervals with start <= end, overlap_ratio lies in [0, 1].
C9_RatioInUnitInterval ==
    ValidPair =>
        \A c \in RatioCalls :
            /\ FracLE(Frac(0, 1), c.result)
            /\ FracLE(c.result, Frac(1, 1))

\* a ratio strictly between 0 and 1 was returned
C9_Witness ==
    /\ ValidPair
    /\ \E c \in RatioCalls :
          /\ FracLT(Frac(0, 1), c.result)
          /\ FracLT(c.result, Frac(1, 1))

\* C10: overlap_ratio is exactly 1.0 when one interval contains the other and
\* both have non-zero length.
C10_ContainmentGivesOne ==
    \A c \in RatioCalls :
        LET a == CallArgs(c)[1]
            b == CallArgs(c)[2]
        IN  /\ a[1] < a[2]
            /\ b[1] < b[2]
            /\ \/ (a[1] <= b[1] /\ b[2] <= a[2])
               \/ (b[1] <= a[1] /\ a[2] <= b[2])
            => c.result = Frac(1, 1)

\* the ratio of an interval and a strictly longer one that contains it, in
\* both argument orders
C10_Witness ==
    /\ Cardinality(RatioCalls) = 2
    /\ probe.seg1[1] < probe.seg2[1]
    /\ probe.seg2[1] < probe.seg2[2]
    /\ probe.seg2[2] < probe.seg1[2]
    /\ \A c \in RatioCalls : c.result = Frac(1, 1)

\* C11: overlap_ratio is 0.0 for disjoint intervals, and is 0.0, with no
\* division by zero, when either interval has zero duration, also when the
\* zero-length interval lies inside the other one.
C11_RatioZero ==
    \A c \in RatioCalls :
        LET a == CallArgs(c)[1]
            b == CallArgs(c)[2]
        IN  /\ c.result # ZeroDivisionError
            /\ (a[2] <= b[1] \/ b[2] <= a[1]) => c.result = Frac(0, 1)
            /\ (a[1] = a[2] \/ b[1] = b[2]) => c.result = Frac(0, 1)

\* the ratio of a zero-length interval and an interval strictly around it
\* was computed in both argument orders and was 0 both times
C11_Witness ==
    /\ Cardinality(RatioCalls) = 2
    /\ \A c \in RatioCalls : c.result = Frac(0, 1)
    /\ probe.seg1[1] = probe.seg1[2]
    /\ probe.seg2[1] < probe.seg1[1]
    /\ probe.seg1[2] < probe.seg2[2]

\* ----------------------------------------------------------------------
\* Further properties of the aligner
\* ----------------------------------------------------------------------
AllInputsValid ==
    /\ \A n \in 1..Len(transcription_segments) : ValidSpan(transcription_segments[n])
    /\ \A n \in 1..Len(diarization_segments) : ValidSpan(diarization_segments[n])

\* C12: for inputs with start <= end and any threshold, every aligned
\* segment's confidence lies in [0, 1]; the confidence is 0.0 exactly for
\* the segments with the sentinel speaker, and is at least the threshold
\* for every segment with a real speaker.
C12_ConfidenceRange ==
    \A n \in 1..Len(aligned_segments) :
        LET a == aligned_segments[n]
        IN  /\ AllInputsValid =>
                  /\ FracLE(Frac(0, 1), a.confidence)
                  /\ FracLE(a.confidence, Frac(1, 1))
            /\ a.confidence = Frac(0, 1) <=> ~RealSpeaker(a)
            /\ RealSpeaker(a) => FracLE(overlap_threshold, a.confidence)

\* a call returned a sentinel segment and a segment with a real speaker
\* whose confidence is strictly between the threshold and 1
C12_Witness ==
    /\ Done
    /\ AllInputsValid
    /\ Len(aligned_segments) = 2
    /\ ~RealSpeaker(aligned_segments[1])
    /\ RealSpeaker(aligned_segments[2])
    /\ FracLT(overlap_threshold, aligned_segments[2].confidence)
    /\ FracLT(aligned_segments[2].confidence, Frac(1, 1))
    /\ FracLT(Frac(0, 1), overlap_threshold)

\* ----------------------------------------------------------------------
\* Totality
\* ----------------------------------------------------------------------
\* the interval has start > end or zero length
Degenerate(span) == span[1] >= span[2]

\* C19: the overlap functions and the aligner raise no error on malformed or
\* degenerate spans: when an interval has start > end or zero length,
\* overlap_duration returns 0 and overlap_ratio returns 0 with no division
\* by zero, and under any positive threshold the aligner gives such a
\* transcription span the sentinel speaker instead of failing.
C19_Total ==
    /\ pc # "raised"
    /\ \A c \in RatioCalls : c.result # ZeroDivisionError
    /\ \A c \in probe.calls :
          (Degenerate(probe.seg1) \/ Degenerate(probe.seg2)) =>
              IF c.fn = "calculate_overlap"
              THEN c.result = 0
              ELSE c.result = Frac(0, 1)
    /\ FracLT(Frac(0, 1), overlap_threshold) =>
          \A n \in DOMAIN aligned_segments \cap DOMAIN transcription_segments :
              Degenerate(<<transcription_segments[n].start,
                           transcription_segments[n].end>>)
                  => IsSentinel(aligned_segments[n])

\* align returned for a span with start > end and for a zero-length span,
\* both lying within the only diarization span, under the default threshold
C19_Witness ==
    /\ Done
    /\ overlap_threshold = DefaultThreshold
    /\ Len(transcription_segments) = 2
    /\ Len(diarization_segments) = 1
    /\ transcription_segments[1].start > transcription_segments[1].end
    /\ transcription_segments[2].start = transcription_segments[2].end
    /\ diarization_segments[1].start < transcription_segments[1].end
    /\ transcription_segments[1].start < diarization_segments[1].end
    /\ diarization_segments[1].start < transcription_segments[2].start
    /\ transcription_segments[2].end < diarization_segments[1].end
    /\ Len(aligned_segments) = 2
    /\ \A n \in 1..2 : IsSentinel(aligned_segments[n])

\* ----------------------------------------------------------------------
\* Frame
\* ----------------------------------------------------------------------
InputsUnchanged ==
    /\ transcription_segments' = transcription_segments
    /\ diarization_segments' = diarization_segments

ReferencesAreSupplied ==
    \A n \in 1..Len(aligned_segments) :
        \A k \in 1..Len(aligned_segments[n].diarization_segments) :
            \E m \in 1..Len(diarization_segments) :
                aligned_segments[n].diarization_segments[k]
                    = SpanOf(diarization_segments[m])

\* C17: align does not modify its inputs: no step of a call changes the
\* transcription list, the diarization list or a record in them, and the
\* diarization spans referenced by the output carry the start, end, speaker
\* and speaker id of a supplied span.
C17_InputsReadOnly ==
    /\ [][InputsUnchanged]_vars
    /\ []ReferencesAreSupplied

\* align returned a segment whose text is the trimmed form of an untrimmed
\* input text and which references a supplied span; the input record still
\* holds the untrimmed text
C17_Witness ==
    /\ Done
    /\ Len(aligned_segments) = 1
    /\ Len(aligned_segments[1].diarization_segments) >= 1
    /\ aligned_segments[1].text # transcription_segments[1].text
    /\ aligned_segments[1].text = strip(transcription_segments[1].text)

\* ----------------------------------------------------------------------
\* Properties of the formatter
\* ----------------------------------------------------------------------
Formatted == pc = "formatted"

\* the segments the loop has dealt with
Rendered == 1..(IF pc \in {"for_segment", "formatted"} THEN segment - 1 ELSE 0)

\* the rendered segments whose speaker differs from the one just before
\* (the first segment always does)
RunStarts ==
    {k \in Rendered :
        k = 1 \/ aligned_segments[k].speaker # aligned_segments[k - 1].speaker}

IsHeader(line) ==
    /\ Len(line) >= 5
    /\ SubSeq(line, 1, 2) = <<"*", "*">>
    /\ SubSeq(line, Len(line) - 2, Len(line)) = <<":", "*", "*">>

IsHeaderOf(line, speaker) ==
    IsHeader(line) /\ SubSeq(line, 3, Len(line) - 3) = speaker

IsBlank(line) == line = <<>>

StartsText(line) == Len(line) >= 1 /\ line[1] = "["

\* the positions of the header lines, and of the text lines, among lines
HeaderIdx(lines) == {x \in 1..Len(lines) : IsHeader(lines[x])}

TextIdx(lines) == {x \in 1..Len(lines) : StartsText(lines[x])}

\* the k-th smallest member of a set of positions
Kth(S, k) == CHOOSE x \in S : Cardinality({y \in S : y < x}) = k - 1

\* C13: a speaker header is emitted exactly when a segment's speaker differs
\* from that of the segment just before it (always for the first segment):
\* the line emitted before a segment's text line is the header of its
\* speaker if the speaker changed and is the previous segment's text line
\* otherwise, so there are as many headers as maximal runs of adjacent
\* segments with the same speaker.
C13_HeaderPerRun ==
    /\ Cardinality(HeaderIdx(transcript_lines)) = Cardinality(RunStarts)
    /\ Cardinality(TextIdx(transcript_lines)) = Cardinality(Rendered)
    /\ \A k \in Rendered :
          LET x == Kth(TextIdx(transcript_lines), k)
          IN  IF k \in RunStarts
              THEN /\ x > 1
                   /\ IsHeaderOf(transcript_lines[x - 1], aligned_segments[k].speaker)
              ELSE /\ x > 1
                   /\ x - 1 = Kth(TextIdx(transcript_lines), k - 1)

\* a speaker, another speaker and the first speaker again were rendered:
\* three headers, the last one for the first speaker
C13_Witness ==
    /\ Formatted
    /\ Len(aligned_segments) = 3
    /\ aligned_segments[1].speaker = aligned_segments[3].speaker
    /\ aligned_segments[1].speaker # aligned_segments[2].speaker
    /\ Cardinality(HeaderIdx(transcript_lines)) = 3
    /\ IsHeaderOf(transcript_lines[Len(transcript_lines) - 1],
                  aligned_segments[1].speaker)

\* the lines of a string: its pieces between line breaks
RECURSIVE Split(_)
Split(str) ==
    IF \A x \in 1..Len(str) : str[x] # "\n"
    THEN <<str>>
    ELSE LET p == CHOOSE x \in 1..Len(str) :
                      str[x] = "\n" /\ \A y \in 1..(x - 1) : str[y] # "\n"
         IN  <<SubSeq(str, 1, p - 1)>> \o Split(SubSeq(str, p + 1, Len(str)))

HasLineBreak(str) == \E x \in 1..Len(str) : str[x] = "\n"

\* no text and no speaker label of the argument contains a line break
SingleLineSegments ==
    \A k \in 1..Len(aligned_segments) :
        /\ ~HasLineBreak(aligned_segments[k].text)
        /\ ~HasLineBreak(aligned_segments[k].speaker)

\* blank lines of the output stand exactly before the headers other than the
\* first; the output neither starts nor ends with one; no input, no output
BlankLinesOnlyBeforeHeaders ==
    IF aligned_segments = <<>>
    THEN transcript = <<>>
    ELSE LET L == Split(transcript)
         IN  /\ IsHeader(L[1])
             /\ ~IsBlank(L[Len(L)])
             /\ \A x \in HeaderIdx(L) : x > 1 => IsBlank(L[x - 1])
             /\ \A x \in 1..Len(L) :
                   IsBlank(L[x]) => x > 1 /\ x < Len(L) /\ IsHeader(L[x + 1])

\* C14 as claimed: in the output a blank line appears immediately before
\* every speaker header except the first and nowhere else; the output never
\* starts or ends with a blank line; an empty input yields the empty string.
C14_BlankLines_Claimed == Formatted => BlankLinesOnlyBeforeHeaders

\* C14: the same, for segments whose text and speaker label contain no line
\* break.
C14_BlankLines == (Formatted /\ SingleLineSegments) => BlankLinesOnlyBeforeHeaders

\* three single-line segments of two speakers were rendered: the output has
\* exactly one blank line, neither first nor last
C14_Witness ==
    /\ Formatted
    /\ SingleLineSegments
    /\ Len(aligned_segments) = 3
    /\ Cardinality(RunStarts) = 2
    /\ Cardinality({x \in 1..Len(Split(transcript)) : IsBlank(Split(transcript)[x])}) = 1
    /\ Len(Split(transcript)) = 6

\* reading a line "[MM:SS] text" back
IsDigit(c) == \E v \in 1..10 : DigitChars[v] = c

AllDigits(str) == Len(str) >= 1 /\ \A x \in 1..Len(str) : IsDigit(str[x])

DigitValue(c) == (CHOOSE v \in 1..10 : DigitChars[v] = c) - 1

RECURSIVE ParseInt(_)
ParseInt(str) ==
    IF Len(str) = 1
    THEN DigitValue(str[1])
    ELSE 10 * ParseInt(SubSeq(str, 1, Len(str) - 1)) + DigitValue(str[Len(str)])

\* the position of the first colon of the line; 0 if there is none
ColonAt(line) ==
    IF \E x \in 1..Len(line) : line[x] = ":"
    THEN CHOOSE x \in 1..Len(line) :
             line[x] = ":" /\ \A y \in 1..(x - 1) : line[y] # ":"
    ELSE 0

MinutesOf(line) == SubSeq(line, 2, ColonAt(line) - 1)

SecondsOf(line) == SubSeq(line, ColonAt(line) + 1, ColonAt(line) + 2)

TextOf(line) == SubSeq(line, ColonAt(line) + 5, Len(line))

\* the line is "[", digits, ":", two digits, "] " and something
IsTimestamped(line) ==
    /\ StartsText(line)
    /\ ColonAt(line) >= 3
    /\ Len(line) >= ColonAt(line) + 4
    /\ AllDigits(MinutesOf(line))
    /\ AllDigits(SecondsOf(line))
    /\ line[ColonAt(line) + 3] = "]"
    /\ line[ColonAt(line) + 4] = " "

\* floor(start / 60) and floor(start) mod 60 of a start <<n, d>>
FloorMinutes(start) == start[1] \div (60 * start[2])

FloorSeconds(start) == (start[1] \div start[2]) % 60

\* the line is "[MM:SS] <text>" for the segment
IsTextLineOf(line, seg) ==
    /\ IsTimestamped(line)
    /\ ParseInt(MinutesOf(line)) = FloorMinutes(seg.start)
    /\ ParseInt(SecondsOf(line)) = FloorSeconds(seg.start)
    /\ TextOf(line) = seg.text

\* one text line per segment, in the order of the segments, and n + 2h - 1
\* lines in all
OneTextLinePerSegment ==
    LET n == Len(aligned_segments)
        h == Cardinality(RunStarts)
        L == Split(transcript)
    IN  IF n = 0
        THEN transcript = <<>>
        ELSE /\ Len(L) = n + 2 * h - 1
             /\ Cardinality(TextIdx(L)) = n
             /\ \A k \in 1..n :
                   IsTextLineOf(L[Kth(TextIdx(L), k)], aligned_segments[k])

\* C15 as claimed: the output has exactly one "[MM:SS] <text>" line per
\* input segment, in the order of the segments; for n > 0 segments and h
\* headers it has n + 2h - 1 lines.
C15_TextLines_Claimed == Formatted => OneTextLinePerSegment

\* C15: the same, for segments whose text and speaker label contain no line
\* break.
C15_TextLines == (Formatted /\ SingleLineSegments) => OneTextLinePerSegment

\* three single-line segments with three different starts, the latest
\* first, were rendered under two headers: 3 + 2 * 2 - 1 = 6 lines
C15_Witness ==
    /\ Formatted
    /\ SingleLineSegments
    /\ Len(aligned_segments) = 3
    /\ Cardinality(RunStarts) = 2
    /\ FracLT(aligned_segments[2].start, aligned_segments[1].start)
    /\ FracLT(aligned_segments[3].start, aligned_segments[2].start)
    /\ Len(Split(transcript)) = 6
    /\ IsTextLineOf(Split(transcript)[6], aligned_segments[3])

\* the characters of the timestamp of a line
TimestampOf(line) == SubSeq(line, 2, ColonAt(line) + 2)

\* C16: the timestamp of a segment with start >= 0 is MM = floor(start / 60)
\* and SS = floor(start) mod 60, which is in 0..59; SS has two digits and MM
\* has at least two, with a leading zero only to reach two; minutes are not
\* capped at 59: a start of 3600 gives 60:00 and a start of 6000 gives
\* 100:00.
C16_Timestamp ==
    \A k \in Rendered :
        LET line  == transcript_lines[Kth(TextIdx(transcript_lines), k)]
            start == aligned_segments[k].start
        IN  FracLE(Frac(0, 1), start) =>
              /\ IsTimestamped(line)
              /\ ParseInt(MinutesOf(line)) = FloorMinutes(start)
              /\ ParseInt(SecondsOf(line)) = FloorSeconds(start)
              /\ ParseInt(SecondsOf(line)) \in 0..59
              /\ Len(SecondsOf(line)) = 2
              /\ Len(MinutesOf(line)) >= 2
              /\ Len(MinutesOf(line)) > 2 => MinutesOf(line)[1] # "0"
              /\ start = Frac(3600, 1) =>
                    TimestampOf(line) = <<"6", "0", ":", "0", "0">>
              /\ start = Frac(6000, 1) =>
                    TimestampOf(line) = <<"1", "0", "0", ":", "0", "0">>

\* starts of 59.5 s, 3600 s and 6000 s were rendered as 00:59, 60:00 and
\* 100:00
C16_Witness ==
    /\ Formatted
    /\ Len(aligned_segments) = 3
    /\ aligned_segments[1].start = Frac(119, 2)
    /\ aligned_segments[2].start = Frac(3600, 1)
    /\ aligned_segments[3].start = Frac(6000, 1)
    /\ TimestampOf(transcript_lines[Kth(TextIdx(transcript_lines), 1)])
           = <<"0", "0", ":", "5", "9">>
    /\ TimestampOf(transcript_lines[Kth(TextIdx(transcript_lines), 2)])
           = <<"6", "0", ":", "0", "0">>
    /\ TimestampOf(transcript_lines[Kth(TextIdx(transcript_lines), 3)])
           = <<"1", "0", "0", ":", "0", "0">>

\* ----------------------------------------------------------------------
\* Properties of successive calls
\* ----------------------------------------------------------------------
\* align has returned from a call on the arguments of the kept call
SameAlignCall ==
    /\ remembered # None
    /\ remembered.fn = "align"
    /\ pc = "done"
    /\ AlignArgs = remembered.args

\* the formatter has returned from a call on the argument of the kept call
SameFormatCall ==
    /\ remembered # None
    /\ remembered.fn = "format"
    /\ pc = "formatted"
    /\ aligned_segments = remembered.args

\* C18: align and the formatter are deterministic and carry no state from
\* call to call: a call with the arguments of an earlier call returns the
\* result of that call, whatever calls were made before and between.
C18_Deterministic ==
    /\ SameAlignCall => aligned_segments = remembered.result
    /\ SameFormatCall => transcript = remembered.result

\* align returned two segments, one with a real speaker, for the second
\* time on the same arguments, after calls on other arguments in between
C18_Witness ==
    /\ SameAlignCall
    /\ remembered.intervened
    /\ Len(aligned_segments) = 2
    /\ \E n \in 1..2 : RealSpeaker(aligned_segments[n])
    /\ aligned_segments = remembered.result
    /\ transcript # <<>>

\* align has returned from a call on the arguments of the kept call with
\* every time multiplied by k
ScaledCall(k) ==
    /\ remembered # None
    /\ remembered.fn = "align"
    /\ pc = "done"
    /\ AlignArgs = Scaled(k, remembered.args)

\* segment by segment the same speaker, the same confidence and references
\* to the diarization spans of the same speakers, as many and in the same
\* order
SameAssignment(a, b) ==
    /\ Len(a) = Len(b)
    /\ \A n \in 1..Len(a) :
          /\ a[n].speaker = b[n].speaker
          /\ a[n].speaker_id = b[n].speaker_id
          /\ a[n].confidence = b[n].confidence
          /\ Len(a[n].diarization_segments) = Len(b[n].diarization_segments)
          /\ \A m \in 1..Len(a[n].diarization_segments) :
                a[n].diarization_segments[m].speaker_id
                    = b[n].diarization_segments[m].speaker_id

ScaleInvariant(k) ==
    ScaledCall(k) => SameAssignment(aligned_segments, remembered.result)

IsSupplied(ref) ==
    \E m \in 1..Len(diarization_segments) : ref = SpanOf(diarization_segments[m])

\* C23: the (speaker, speaker id) pair of every aligned segment is either
\* the sentinel pair with an empty reference list, or the pair of a supplied
\* diarization span that is a member of the segment's reference list.
C23_SpeakerFromReferences ==
    \A n \in 1..Len(aligned_segments) :
        LET a == aligned_segments[n]
        IN  \/ /\ a.speaker = SentinelSpeaker.speaker
               /\ a.speaker_id = SentinelSpeaker.speaker_id
               /\ a.diarization_segments = <<>>
            \/ /\ a.speaker # SentinelSpeaker.speaker
               /\ a.speaker_id # SentinelSpeaker.speaker_id
               /\ \E m \in 1..Len(a.diarization_segments) :
                     /\ HasSpeakerOf(a, a.diarization_segments[m])
                     /\ IsSupplied(a.diarization_segments[m])

\* align returned a sentinel segment without references and a segment with
\* the speaker of its only reference, the supplied span
C23_Witness ==
    /\ Done
    /\ Len(aligned_segments) = 2
    /\ ~RealSpeaker(aligned_segments[1])
    /\ aligned_segments[1].diarization_segments = <<>>
    /\ Len(aligned_segments[2].diarization_segments) = 1
    /\ HasSpeakerOf(aligned_segments[2], aligned_segments[2].diarization_segments[1])
    /\ aligned_segments[2].diarization_segments[1] = SpanOf(diarization_segments[1])

\* ----------------------------------------------------------------------
\* Symmetry of the ratio
\* ----------------------------------------------------------------------
\* C25: overlap_ratio(a, b) = overlap_ratio(b, a) for all intervals, so the
\* ratio the aligner computes for a transcription span and a diarization
\* span is the same with the two spans passed in the other order.
C25_RatioSymmetric ==
    /\ \A c1, c2 \in RatioCalls : c1.result = c2.result
    /\ \A n \in 1..Len(transcription_segments) :
          \A m \in 1..Len(diarization_segments) :
              LET t == transcription_segments[n]
                  d == diarization_segments[m]
              IN  calculate_overlap_ratio(t.start, t.end, d.start, d.end)
                      = calculate_overlap_ratio(d.start, d.end, t.start, t.end)

\* the ratio of two overlapping intervals of different non-zero lengths,
\* the longer one first, was computed in both argument orders
C25_Witness ==
    /\ Cardinality(RatioCalls) = 2
    /\ probe.seg1[1] < probe.seg1[2]
    /\ probe.seg2[1] < probe.seg2[2]
    /\ probe.seg1[2] - probe.seg1[1] > probe.seg2[2] - probe.seg2[1]
    /\ probe.seg1[1] < probe.seg2[1]
    /\ \A c \in RatioCalls : FracLT(Frac(0, 1), c.result)

\* ----------------------------------------------------------------------
\* Monotonicity in the threshold
\* ----------------------------------------------------------------------
\* a is b with some elements left out
RECURSIVE IsSubList(_, _)
IsSubList(a, b) ==
    IF a = <<>> THEN TRUE
    ELSE IF b = <<>> THEN FALSE
    ELSE IF Head(a) = Head(b) THEN IsSubList(Tail(a), Tail(b))
    ELSE IsSubList(a, Tail(b))

\* align has returned from a call on the lists of the kept call
SameListsCall ==
    /\ remembered # None
    /\ remembered.fn = "align"
    /\ pc = "done"
    /\ transcription_segments = remembered.args.T
    /\ diarization_segments = remembered.args.D

\* hi is the result at the higher threshold, lo the result at the lower
Monotone(lo, hi) ==
    /\ Len(lo) = Len(hi)
    /\ \A n \in 1..Len(hi) :
          /\ IsSubList(hi[n].diarization_segments, lo[n].diarization_segments)
          /\ RealSpeaker(hi[n]) =>
                /\ lo[n].speaker = hi[n].speaker
                /\ lo[n].speaker_id = hi[n].speaker_id
                /\ lo[n].confidence = hi[n].confidence

\* C24: for thresholds t1 <= t2 and the same lists, the references of each
\* segment at t2 are a sub-list of its references at t1, and a segment with
\* a real speaker at t2 has the same speaker, speaker id and confidence at
\* t1.
C24_ThresholdMonotone ==
    SameListsCall =>
        /\ FracLE(remembered.args.threshold, overlap_threshold)
              => Monotone(remembered.result, aligned_segments)
        /\ FracLE(overlap_threshold, remembered.args.threshold)
              => Monotone(aligned_segments, remembered.result)

\* the kept call, at the lower threshold, gave a segment two references;
\* the call at the higher threshold gave it one of them and the same speaker
C24_Witness ==
    /\ SameListsCall
    /\ FracLT(remembered.args.threshold, overlap_threshold)
    /\ \E n \in 1..Len(aligned_segments) :
          /\ RealSpeaker(aligned_segments[n])
          /\ Len(aligned_segments[n].diarization_segments) = 1
          /\ Len(remembered.result[n].diarization_segments) = 2
          /\ remembered.result[n].speaker = aligned_segments[n].speaker

\* ----------------------------------------------------------------------
\* The pipeline's round trip through dicts
\* ----------------------------------------------------------------------
\* the formatter has returned from the call on the rebuilt objects
FormattedRebuilt ==
    /\ pc = "formatted"
    /\ HasTranscript
    /\ aligned_segments = AsRead(Rebuilt(remembered.result))

\* C26: formatting the objects rebuilt from the dicts of
\* transcribe_with_diarization, as run_diarization_pipeline does, gives
\* exactly the transcript of the aligner's own objects.
C26_RebuiltSameTranscript ==
    FormattedRebuilt => transcript = remembered.transcript

\* the objects of two segments, one with the sentinel speaker and one with a
\* real speaker and a reference, were formatted directly and after the
\* round trip, which dropped the references
C26_Witness ==
    /\ FormattedRebuilt
    /\ Len(remembered.result) = 2
    /\ \E n \in 1..2 : ~RealSpeaker(remembered.result[n])
    /\ \E n \in 1..2 :
          /\ RealSpeaker(remembered.result[n])
          /\ remembered.result[n].diarization_segments # <<>>
    /\ aligned_segments # AsRead(remembered.result)
    /\ Len(transcript_lines) = 5
    /\ transcript = remembered.transcript

\* ------------------------------------------------------ perform_diarization
\* diarization.py lines 76-174 with audio_preprocessing.py lines 61-123.
\* The file system is the set of paths that exist; what the model call does
\* belongs to the pipeline argument; an exception is a one-element sequence
\* holding its class.
AudioPaths == {"meeting.wav", "meeting.mp3"}

\* Path(file_path).suffix.lower()
suffix(path) ==
    CASE path = "meeting.wav" -> ".wav"
      [] path = "meeting.mp3" -> ".mp3"
      [] path = "tmp/meeting_diarization.wav" -> ".wav"

\* audio_preprocessing.py lines 93-96: gettempdir() / f"{stem}_diarization.wav"
temp_file(path) ==
    CASE path = "meeting.wav" -> "tmp/meeting_diarization.wav"
      [] path = "meeting.mp3" -> "tmp/meeting_diarization.wav"

\* what calling the pipeline object does: it returns or raises this class
Pipelines == {"returns", "FileNotFoundError", "DiarizationError", "RuntimeError"}

\* what the FFmpeg conversion does: it writes the file, fails before
\* writing, or fails and leaves a partial file
Conversions == {"converted", "failed", "failed_partial"}

InitDiarize ==
    /\ transcription_segments = <<>>
    /\ diarization_segments = <<>>
    /\ overlap_threshold = DefaultThreshold
    /\ pc = "perform"
    /\ trans_segs = <<>>
    /\ diar_segs = <<>>
    /\ i = 0
    /\ j = 0
    /\ best_match = None
    /\ best_overlap_ratio = Frac(0, 1)
    /\ matching_diar_segments = <<>>
    /\ aligned_segments = <<>>
    /\ probe = NoProbe
    /\ FormatterIdle
    /\ remembered = None
    /\ file_path \in AudioPaths
    /\ files \in {{}, {file_path}}
    /\ audio_issues \in BOOLEAN
    /\ ffmpeg_available \in BOOLEAN
    /\ tempdir_usable \in BOOLEAN
    /\ unlink_permitted \in BOOLEAN
    /\ pipeline \in Pipelines
    /\ processed_file = <<>>
    /\ is_temporary = FALSE
    /\ raised = <<>>
    /\ RunIdle
    /\ BatchIdle

coreVars == <<transcription_segments, diarization_segments, overlap_threshold,
              trans_segs, diar_segs, i, j, best_match, best_overlap_ratio,
              matching_diar_segments, aligned_segments, probe, fmtVars,
              remembered, runVars, batchVars>>

hostVars == <<audio_issues, ffmpeg_available, tempdir_usable, unlink_permitted,
              file_path, pipeline>>

\* audio_preprocessing.py lines 216-217
needs_conversion == suffix(file_path) # ".wav"

\* audio_preprocessing.py lines 235-237
is_valid == ~audio_issues \/ needs_conversion

\* diarization.py lines 101-105: the check made before the try statement
PerformBegin ==
    /\ pc = "perform"
    /\ IF file_path \notin files
       THEN /\ raised' = <<"FileNotFoundError">>
            /\ pc' = "exit"
       ELSE /\ raised' = <<>>
            /\ pc' = "validate"
    /\ processed_file' = <<>>
    /\ is_temporary' = FALSE
    /\ UNCHANGED <<coreVars, hostVars, files>>

\* diarization.py lines 109-118
Validate ==
    /\ pc = "validate"
    /\ IF ~is_valid /\ ~needs_conversion
       THEN /\ raised' = <<"DiarizationError">>
            /\ pc' = "except"
       ELSE /\ raised' = raised
            /\ pc' = "preprocess"
    /\ UNCHANGED <<coreVars, hostVars, files, processed_file, is_temporary>>

\* audio_preprocessing.py lines 118-123: errors of the removal are ignored
cleanup_temporary_file(fs, path) ==
    IF path \in fs /\ unlink_permitted THEN fs \ {path} ELSE fs

\* audio_preprocessing.py lines 98-108: the conversion and its handler
Converting(outcome) ==
    LET temp == temp_file(file_path)
        written == IF outcome = "failed" THEN files ELSE files \cup {temp}
    IN  IF outcome = "converted"
        THEN /\ files' = written
             /\ processed_file' = <<temp>>
             /\ is_temporary' = TRUE
             /\ raised' = raised
             /\ pc' = "model"
        ELSE /\ processed_file' = processed_file
             /\ is_temporary' = is_temporary
             /\ pc' = "except"
             /\ IF temp \in written
                THEN IF unlink_permitted
                     THEN /\ files' = written \ {temp}
                          /\ raised' = <<"DiarizationError">>
                     ELSE /\ files' = written
                          /\ raised' = <<"PermissionError">>
                ELSE /\ files' = written
                     /\ raised' = <<"DiarizationError">>

\* diarization.py lines 120-144 with audio_preprocessing.py lines 82-108
Preprocess ==
    /\ pc = "preprocess"
    /\ IF needs_conversion
       THEN IF ~ffmpeg_available
            THEN /\ raised' = <<"DiarizationError">>
                 /\ pc' = "except"
                 /\ UNCHANGED <<files, processed_file, is_temporary>>
            ELSE IF ~tempdir_usable
                 THEN /\ raised' = <<"FileNotFoundError">>
                      /\ pc' = "except"
                      /\ UNCHANGED <<files, processed_file, is_temporary>>
                 ELSE \E outcome \in Conversions : Converting(outcome)
       ELSE /\ processed_file' = <<file_path>>
            /\ is_temporary' = FALSE
            /\ pc' = "model"
            /\ UNCHANGED <<files, raised>>
    /\ UNCHANGED <<coreVars, hostVars>>

\* diarization.py lines 146-163
RunModel ==
    /\ pc = "model"
    /\ IF pipeline = "returns"
       THEN /\ raised' = raised
            /\ pc' = "finally"
       ELSE /\ raised' = <<pipeline>>
            /\ pc' = "except"
    /\ UNCHANGED <<coreVars, hostVars, files, processed_file, is_temporary>>

\* a variant that lets every exception through as it is
Escaping_unchanged(e) == e

\* diarization.py lines 166-169: what leaves the except clause
Escaping(e) ==
    IF e[1] \in {"DiarizationError", "FileNotFoundError"}
    THEN e
    ELSE <<"DiarizationError">>

\* diarization.py lines 165-169
Handle ==
    /\ pc = "except"
    /\ raised' = Escaping(raised)
    /\ pc' = "finally"
    /\ UNCHANGED <<coreVars, hostVars, files, processed_file, is_temporary>>

\* a variant that cleans up whatever file was processed
NeedsCleanup_always == processed_file # <<>>

\* diarization.py line 173
NeedsCleanup == is_temporary /\ processed_file # <<>>

\* diarization.py lines 171-174
Finally ==
    /\ pc = "finally"
    /\ files' = IF NeedsCleanup
                THEN cleanup_temporary_file(files, processed_file[1])
                ELSE files
    /\ pc' = "exit"
    /\ UNCHANGED <<coreVars, hostVars, processed_file, is_temporary, raised>>

NextDiarize ==
    \/ PerformBegin
    \/ Validate
    \/ Preprocess
    \/ RunModel
    \/ Handle
    \/ Finally

SpecDiarize == InitDiarize /\ [][NextDiarize]_vars


\* ---------------------------------------------------------------- C22
Escaped == pc = "exit" /\ raised # <<>>

FileMissing == file_path \notin files

\* a step inside the try statement raises FileNotFoundError itself
InnerFileNotFound ==
    \/ pipeline = "FileNotFoundError"
    \/ needs_conversion /\ ffmpeg_available /\ ~tempdir_usable

Steps == {"transcribe", "load_pipeline", "diarize", "align", "save_rttm",
          "save_transcript", "summarize"}

\* the class a failing step raises
Raises(step) ==
    CASE step = "transcribe" -> <<"RuntimeError">>
      [] step = "load_pipeline" -> <<"DiarizationError">>
      [] step = "diarize" -> <<"DiarizationError">>
      [] step = "align" -> <<"KeyError">>
      [] step = "save_rttm" -> <<"OSError">>
      [] step = "save_transcript" -> <<"OSError">>
      [] step = "summarize" -> <<"RuntimeError">>

Step(step) == IF step \in failing THEN Raises(step) ELSE <<>>

\* the first exception raised by a sequence of steps, <<>> when none is
RECURSIVE FirstRaised(_)
FirstRaised(outcomes) ==
    IF outcomes = <<>>
    THEN <<>>
    ELSE IF Head(outcomes) # <<>>
         THEN Head(outcomes)
         ELSE FirstRaised(Tail(outcomes))

\* pipeline.py lines 60-61, 164-165, transcription.py lines 201-202:
\* except Exception as e: raise RuntimeError(...)
Reraised(e) == IF e = <<>> THEN <<>> ELSE <<"RuntimeError">>

\* transcription.py lines 32-59 and 80-100
transcribe_audio(path) ==
    IF path \notin files
    THEN <<"FileNotFoundError">>
    ELSE Reraised(Step("transcribe"))

\* diarization.py lines 101-169, by its outcome
perform_diarization(path) ==
    IF path \notin files THEN <<"FileNotFoundError">> ELSE Step("diarize")

\* transcription.py lines 155-202
transcribe_with_diarization(path) ==
    Reraised(FirstRaised(<<transcribe_audio(path), Step("load_pipeline"),
                           perform_diarization(path), Step("align"),
                           Step("save_rttm")>>))

\* pipeline.py lines 40-61
run_pipeline(path) ==
    Reraised(FirstRaised(<<transcribe_audio(path), Step("summarize")>>))

\* pipeline.py lines 106-165
run_diarization_pipeline(path) ==
    Reraised(FirstRaised(<<transcribe_with_diarization(path),
                           Step("save_transcript"), Step("summarize")>>))

InitRun ==
    /\ transcription_segments = <<>>
    /\ diarization_segments = <<>>
    /\ overlap_threshold = DefaultThreshold
    /\ pc = "call"
    /\ trans_segs = <<>>
    /\ diar_segs = <<>>
    /\ i = 0
    /\ j = 0
    /\ best_match = None
    /\ best_overlap_ratio = Frac(0, 1)
    /\ matching_diar_segments = <<>>
    /\ aligned_segments = <<>>
    /\ probe = NoProbe
    /\ FormatterIdle
    /\ remembered = None
    /\ file_path \in AudioPaths
    /\ files \in SUBSET AudioPaths
    /\ failing \in SUBSET Steps
    /\ entry = ""
    /\ audio_issues = FALSE
    /\ ffmpeg_available = FALSE
    /\ tempdir_usable = FALSE
    /\ unlink_permitted = FALSE
    /\ pipeline = ""
    /\ processed_file = <<>>
    /\ is_temporary = FALSE
    /\ raised = <<>>
    /\ BatchIdle

runFrame == <<transcription_segments, diarization_segments, overlap_threshold,
              trans_segs, diar_segs, i, j, best_match, best_overlap_ratio,
              matching_diar_segments, aligned_segments, probe, fmtVars,
              remembered, files, audio_issues, ffmpeg_available,
              tempdir_usable, unlink_permitted, file_path, pipeline,
              processed_file, is_temporary, failing, batchVars>>

Called_entry(fn, outcome) ==
    /\ pc = "call"
    /\ entry' = fn
    /\ raised' = outcome
    /\ pc' = "exit"
    /\ UNCHANGED runFrame

CallRunPipeline == Called_entry("run_pipeline", run_pipeline(file_path))

CallRunDiarizationPipeline ==
    Called_entry("run_diarization_pipeline", run_diarization_pipeline(file_path))

CallTranscribeWithDiarization ==
    Called_entry("transcribe_with_diarization",
                 transcribe_with_diarization(file_path))

NextRun ==
    \/ CallRunPipeline
    \/ CallRunDiarizationPipeline
    \/ CallTranscribeWithDiarization

SpecRun == InitRun /\ [][NextRun]_vars

\* ---------------------------------------------------------------- C21
EntryExited == pc = "exit" /\ entry # ""

\* the steps the entry point goes through
StepsOf(fn) ==
    CASE fn = "run_pipeline" -> {"transcribe", "summarize"}
      [] fn = "transcribe_with_diarization" ->
            {"transcribe", "load_pipeline", "diarize", "align", "save_rttm"}
      [] fn = "run_diarization_pipeline" -> Steps

\* C21 as stated: run_pipeline, run_diarization_pipeline and
\* transcribe_with_diarization raise FileNotFoundError when the input file
\* does not exist, and RuntimeError when any other step fails.
C21_MissingFileError ==
    EntryExited =>
        IF file_path \notin files
        THEN raised = <<"FileNotFoundError">>
        ELSE IF StepsOf(entry) \cap failing # {}
             THEN raised = <<"RuntimeError">>
             ELSE raised = <<>>

\* what the code does: every failure, a missing input file included,
\* leaves the three entry points as RuntimeError
C21_AlwaysRuntimeError ==
    EntryExited =>
        IF file_path \notin files \/ StepsOf(entry) \cap failing # {}
        THEN raised = <<"RuntimeError">>
        ELSE raised = <<>>

\* the input file is missing and the entry point has raised
C21_MissingInput ==
    /\ EntryExited
    /\ file_path \notin files
    /\ raised # <<>>


\* ------------------------------------------------------ run_batch_pipeline
\* pipeline.py lines 168-259. A path of an output file is the pair of the
\* input's stem and the ending the code appends; None in a result is <<>>
\* and a value that is set is a one-element sequence.
MaxFiles == 3

BatchPaths == {"meeting.wav", "meeting.mp3", "standup.mp3"}

\* Path(file_path).stem
stem(path) ==
    CASE path = "meeting.wav" -> "meeting"
      [] path = "meeting.mp3" -> "meeting"
      [] path = "standup.mp3" -> "standup"

\* None, the empty string and a token
Tokens == {<<>>, <<"">>, <<"hf_token">>}

\* the step sets the batch is run under
BatchFailing == {{}, {"summarize"}, {"diarize"}, {"save_rttm"}}

InitBatch ==
    /\ transcription_segments = <<>>
    /\ diarization_segments = <<>>
    /\ overlap_threshold = DefaultThreshold
    /\ pc = "batch"
    /\ trans_segs = <<>>
    /\ diar_segs = <<>>
    /\ i = 0
    /\ j = 0
    /\ best_match = None
    /\ best_overlap_ratio = Frac(0, 1)
    /\ matching_diar_segments = <<>>
    /\ aligned_segments = <<>>
    /\ probe = NoProbe
    /\ FormatterIdle
    /\ remembered = None
    /\ files \in SUBSET BatchPaths
    /\ audio_issues = FALSE
    /\ ffmpeg_available = FALSE
    /\ tempdir_usable = FALSE
    /\ unlink_permitted = FALSE
    /\ file_path = ""
    /\ pipeline = ""
    /\ processed_file = <<>>
    /\ is_temporary = FALSE
    /\ raised = <<>>
    /\ failing \in BatchFailing
    /\ entry = ""
    /\ file_paths \in ListsUpTo(BatchPaths, MaxFiles)
    /\ with_diarization \in BOOLEAN
    /\ use_auth_token \in Tokens
    /\ results = <<>>
    /\ file_result = None
    /\ file_index = 0

batchFrame == <<transcription_segments, diarization_segments, overlap_threshold,
                trans_segs, diar_segs, i, j, best_match, best_overlap_ratio,
                matching_diar_segments, aligned_segments, probe, fmtVars,
                remembered, files, audio_issues, ffmpeg_available,
                tempdir_usable, unlink_permitted, pipeline, processed_file,
                is_temporary, failing, entry, file_paths, with_diarization,
                use_auth_token>>

\* lines 199-201
BatchBegin ==
    /\ pc = "batch"
    /\ results' = <<>>
    /\ file_index' = 1
    /\ pc' = "for_file"
    /\ UNCHANGED <<batchFrame, file_path, raised, file_result>>

\* lines 205-212
Pending(path) ==
    [input_file |-> path, status |-> "pending", transcription_file |-> <<>>,
     summary_file |-> <<>>, rttm_file |-> <<>>, error |-> <<>>]

\* lines 203-212
BatchPending ==
    /\ pc = "for_file"
    /\ file_index <= Len(file_paths)
    /\ file_path' = file_paths[file_index]
    /\ file_result' = Pending(file_paths[file_index])
    /\ pc' = "try"
    /\ UNCHANGED <<batchFrame, raised, results, file_index>>

\* line 221: not use_auth_token
Falsy(token) == token = <<>> \/ token = <<"">>

\* lines 220-247: the exception the pipeline call of one file ends with
Processing(path) ==
    IF with_diarization
    THEN IF Falsy(use_auth_token)
         THEN <<"ValueError">>
         ELSE run_diarization_pipeline(path)
    ELSE run_pipeline(path)

\* a variant that records the status only
Completed_status_only(r, path) == [r EXCEPT !.status = "completed"]

\* lines 237 and 249-251
Completed(r, path) ==
    [r EXCEPT !.status = "completed",
              !.transcription_file = <<<<stem(path), "_transcript.txt">>>>,
              !.summary_file = <<<<stem(path), "_summary.md">>>>,
              !.rttm_file = IF with_diarization
                            THEN <<<<stem(path), ".rttm">>>>
                            ELSE @]

\* lines 214-251
BatchProcess ==
    /\ pc = "try"
    /\ IF Processing(file_path) = <<>>
       THEN /\ file_result' = Completed(file_result, file_path)
            /\ raised' = raised
            /\ pc' = "append"
       ELSE /\ file_result' = file_result
            /\ raised' = Processing(file_path)
            /\ pc' = "except"
    /\ UNCHANGED <<batchFrame, file_path, results, file_index>>

\* str(e) of the exceptions that reach line 253
str(e) ==
    CASE e = <<"ValueError">> -> "HuggingFace token required for diarization"
      [] e = <<"RuntimeError">> ->
            IF with_diarization
            THEN "Diarization pipeline failed"
            ELSE "Pipeline failed"

\* lines 253-255
BatchExcept ==
    /\ pc = "except"
    /\ file_result' = [file_result EXCEPT !.status = "failed",
                                          !.error = <<str(raised)>>]
    /\ raised' = <<>>
    /\ pc' = "append"
    /\ UNCHANGED <<batchFrame, file_path, results, file_index>>

\* a variant that keeps the results of the completed files only
Appended_completed_only(rs, r) ==
    IF r.status = "completed" THEN Append(rs, r) ELSE rs

\* line 257
Appended(rs, r) == Append(rs, r)

\* line 257 and the next turn of the loop
BatchAppend ==
    /\ pc = "append"
    /\ results' = Appended(results, file_result)
    /\ file_index' = file_index + 1
    /\ pc' = "for_file"
    /\ UNCHANGED <<batchFrame, file_path, raised, file_result>>

\* line 259
BatchReturn ==
    /\ pc = "for_file"
    /\ file_index > Len(file_paths)
    /\ pc' = "exit"
    /\ UNCHANGED <<batchFrame, file_path, raised, file_result, results, file_index>>

NextBatch ==
    \/ BatchBegin
    \/ BatchPending
    \/ BatchProcess
    \/ BatchExcept
    \/ BatchAppend
    \/ BatchReturn

SpecBatch == InitBatch /\ [][NextBatch]_vars


\* ---------------------------------------------------------------- C27
BatchReturned == pc = "exit" /\ file_index > 0

\* C27: run_batch_pipeline returns exactly one result per input path, in
\* input order, each with status "completed" or "failed"; a file's result is
\* "failed" exactly when its own pipeline call raised (a missing token under
\* with_diarization included), whatever happened to the files before it, and
\* equal paths get equal results.
C27_OneResultPerFile ==
    /\ pc \in {"for_file", "try", "except", "append"} =>
          Len(results) = file_index - 1
    /\ BatchReturned =>
          /\ Len(results) = Len(file_paths)
          /\ \A k \in DOMAIN results :
                /\ results[k].input_file = file_paths[k]
                /\ results[k].status \in {"completed", "failed"}
                /\ results[k].status = "failed"
                      <=> Processing(file_paths[k]) # <<>>
                /\ with_diarization /\ Falsy(use_auth_token) =>
                      results[k].error =
                         <<"HuggingFace token required for diarization">>
          /\ \A k, l \in DOMAIN results :
                file_paths[k] = file_paths[l] => results[k] = results[l]

\* a batch has returned in which a file failed and a later file completed
C27_Witness ==
    /\ BatchReturned
    /\ \E k, l \in DOMAIN results :
          /\ k < l
          /\ results[k].status = "failed"
          /\ results[l].status = "completed"

\* ---------------------------------------------------------------- C28
IsSet(field) == field # <<>>

\* C28: in every result of run_batch_pipeline, "completed" implies error is
\* None and transcription_file and summary_file are set; "failed" implies
\* error is set and transcription_file, summary_file and rttm_file are None;
\* rttm_file is set only under with_diarization in a completed result.
C28_ResultFields ==
    \A k \in DOMAIN results :
        LET r == results[k]
        IN  /\ r.status = "completed" =>
                  /\ ~IsSet(r.error)
                  /\ IsSet(r.transcription_file)
                  /\ IsSet(r.summary_file)
            /\ r.status = "failed" =>
                  /\ IsSet(r.error)
                  /\ ~IsSet(r.transcription_file)
                  /\ ~IsSet(r.summary_file)
                  /\ ~IsSet(r.rttm_file)
            /\ IsSet(r.rttm_file) =>
                  with_diarization /\ r.status = "completed"

\* a batch with diarization has returned a completed result with its RTTM
\* file and a failed result
C28_Witness ==
    /\ BatchReturned
    /\ with_diarization
    /\ \E k, l \in DOMAIN results :
          /\ results[k].status = "completed"
          /\ IsSet(results[k].rttm_file)
          /\ IsSet(results[k].summary_file)
          /\ results[l].status = "failed"
          /\ IsSet(results[l].error)


====
